---------------------------- MODULE Spec2Model ----------------------------
(***************************************************************************)
(* A model of the research-paper chatbot: the chunker, the relevance       *)
(* scorer, the context assembler, the prompt builder, the citation         *)
(* post-processor and the /chat handler that chains them.                  *)
(*                                                                         *)
(* Text is modelled as TLA+ strings handled character by character         *)
(* (Len, SubSeq and \o on strings), with Python's str.split, str.find,     *)
(* str.strip, str.lower and the `in` test written out as operators.        *)
(***************************************************************************)
EXTENDS Integers, Sequences, FiniteSets, TLC

VARIABLES
    \* extract_chunks_from_text(pdf_text, filename)
    layout,        \* how the input text was put together: [pre, pages]
    pdf_text,      \* the document text handed to the chunker
    filename,      \* the source filename handed to the chunker
    chunks,        \* the list the chunker returned
    cpc,           \* "start" before the call, "done" after it
    \* retrieve_from_pdf_texts(query, pdfs, top_k)
    query,         \* the user's question
    pdfs,          \* the user's documents: records [pdf_text, filename]
    top_k,         \* the number of chunks asked for
    all_chunks,    \* the chunk pool derived from pdfs
    scored_chunks, \* simple_keyword_search's list of (score, chunk), unsorted
    relevant,      \* the list retrieve_from_pdf_texts returned
    rpc,           \* "start" before the call, "done" after it
    \* answer_with_context(question, chunks): the context built for the prompt
    ctx_chunks,    \* the chunk list passed in: lengths of text, source and page
    context_parts, \* the lengths of the blocks appended, in order
    total_chars,   \* the running total the budget test reads
    context_text,  \* the length of "\n".join(context_parts)
    ppc,           \* "start" before the call, "done" after it
    \* extract_references_from_text(pdf_text)
    ref_doc,       \* how the input text was put together
    ref_input,     \* the document text handed to the extractor
    references,    \* the list the extractor returned
    xpc,           \* "start" before the call, "done" after it
    \* app.py and database.py
    sessions,      \* app.sessions: session id -> session data
    issued,        \* the number of session ids handed out so far
    users,         \* table users, in id order
    uploaded_pdfs, \* table uploaded_pdfs
    pdf_seq,       \* the last id the table uploaded_pdfs assigned
    chat_history,  \* table chat_history, in insertion order
    response,      \* the outcome of the last request handled
    \* one upload request taken on its own
    up_files,      \* the files of the request, in order
    up_current,    \* the number of documents the user already has
    up_stored,     \* the rows the request added
    up_status,     \* the status of the response
    upc,           \* position of the upload request
    \* one call of search_papers_from_pdf taken on its own
    cit_docs,      \* the documents passed, in order
    cit_answer,    \* the answer of the chat
    cit_env,       \* which model calls of the related papers fail
    cit_refs,      \* the bibliography entries gathered
    cit_result,    \* the block returned, or the error raised
    spc,           \* position of the call
    \* one call of summarize_document taken on its own
    sum_len,       \* the length of the document text
    sum_llm,       \* how the model behaves
    sum_input,     \* the document text put in the prompt
    sum_result,    \* the summary returned, or the error raised
    mpc,           \* position of the call
    \* the blocks of one prompt, as text
    blk_chunks,    \* the chunks selected for the prompt
    blk_parts,     \* context_parts: the blocks included
    blk_total,     \* total_chars
    bpc,           \* position of the prompt builder
    \* the documents of one user through a sequence of requests
    lib_rows,      \* the rows of uploaded_pdfs of the user
    lib_seq,       \* the last id the table gave out
    lib_last,      \* the last request and its status
    lpc,           \* whether the user is there
    \* a file through ingestion and chunking
    rt_pages,      \* the text of each page of the file
    rt_doc,        \* what ingest_pdf_to_text returned
    rt_chunks,     \* the chunks of the stored text
    tpc            \* how far the file has come

chunkVars == <<layout, pdf_text, filename, chunks, cpc>>

retrievalVars == <<query, pdfs, top_k, all_chunks, scored_chunks, relevant, rpc>>

promptVars == <<ctx_chunks, context_parts, total_chars, context_text, ppc>>

refVars == <<ref_doc, ref_input, references, xpc>>

appVars == <<sessions, issued, users, uploaded_pdfs, pdf_seq, chat_history, response>>

uploadVars == <<up_files, up_current, up_stored, up_status, upc>>

citationVars == <<cit_docs, cit_answer, cit_env, cit_refs, cit_result, spc>>

summaryVars == <<sum_len, sum_llm, sum_input, sum_result, mpc>>

blockVars == <<blk_chunks, blk_parts, blk_total, bpc>>

libraryVars == <<lib_rows, lib_seq, lib_last, lpc>>

roundVars == <<rt_pages, rt_doc, rt_chunks, tpc>>

vars == <<chunkVars, retrievalVars, promptVars, refVars, appVars, uploadVars, citationVars, summaryVars, blockVars, libraryVars, roundVars>>

-----------------------------------------------------------------------------
(* Python string primitives *)

SetMin(S) == CHOOSE x \in S : \A y \in S : x <= y

SetMax(S) == CHOOSE x \in S : \A y \in S : x >= y

Ch(s, i) == SubSeq(s, i, i)

\* Characters str.strip() and str.split() treat as whitespace.
IsSpace(c) == c \in {" ", "\n", "\t"}

\* t occurs in s at the 1-based position i.
StartsAt(s, t, i) ==
    /\ i >= 1
    /\ i + Len(t) - 1 <= Len(s)
    /\ SubSeq(s, i, i + Len(t) - 1) = t

\* s.find(t): the 0-based index of the first occurrence, -1 when there is none.
find(s, t) ==
    LET hits == {i \in 1..(Len(s) - Len(t) + 1) : StartsAt(s, t, i)}
    IN  IF hits = {} THEN -1 ELSE SetMin(hits) - 1

\* s.strip()
strip(s) ==
    LET keep == {i \in 1..Len(s) : ~IsSpace(Ch(s, i))}
    IN  IF keep = {} THEN "" ELSE SubSeq(s, SetMin(keep), SetMax(keep))

\* s[n:] for n >= 0
DropFirst(s, n) == SubSeq(s, n + 1, Len(s))

\* s.split(sep) for a non-empty separator: left to right, non-overlapping.
RECURSIVE split(_, _)
split(s, sep) ==
    LET at == find(s, sep)
    IN  IF at < 0
        THEN <<s>>
        ELSE <<SubSeq(s, 1, at)>> \o split(DropFirst(s, at + Len(sep)), sep)

-----------------------------------------------------------------------------
(* retrieval.py: extract_chunks_from_text *)

PageOpen == "--- Page "

PageClose == " ---"

\* The mutant of chunk_of_page: the test on the closing token's index is off
\* by one, so a one-character page number is not recognised.
chunk_of_page_off_by_one(page_text, fname) ==
    LET page_num_end == find(page_text, PageClose)
        page_num == IF page_num_end > 1
                    THEN strip(SubSeq(page_text, 1, page_num_end))
                    ELSE "1"
        text == IF page_num_end > 1
                THEN strip(DropFirst(page_text, page_num_end + 4))
                ELSE strip(page_text)
    IN  IF strip(page_text) = "" \/ text = ""
        THEN <<>>
        ELSE <<[text |-> text, page |-> page_num, source |-> fname]>>

\* The body of the loop over the split segments: the chunks (none or one) a
\* segment contributes.  No operation of the try block raises on a string, so
\* the except branch (page "?") is never taken.
chunk_of_page(page_text, fname) ==
    LET page_num_end == find(page_text, PageClose)
        page_num == IF page_num_end > 0
                    THEN strip(SubSeq(page_text, 1, page_num_end))
                    ELSE "1"
        text == IF page_num_end > 0
                THEN strip(DropFirst(page_text, page_num_end + 4))
                ELSE strip(page_text)
    IN  IF strip(page_text) = "" \/ text = ""
        THEN <<>>
        ELSE <<[text |-> text, page |-> page_num, source |-> fname]>>

RECURSIVE chunks_of_pages(_, _)
chunks_of_pages(pages, fname) ==
    IF pages = <<>>
    THEN <<>>
    ELSE chunk_of_page(Head(pages), fname) \o chunks_of_pages(Tail(pages), fname)

extract_chunks_from_text(text, fname) ==
    chunks_of_pages(split(text, PageOpen), fname)

-----------------------------------------------------------------------------
(* retrieval.py: simple_keyword_search *)

UpperCase == "ABCDEFGHIJKLMNOPQRSTUVWXYZ"

LowerCase == "abcdefghijklmnopqrstuvwxyz"

lower_char(c) ==
    IF \E i \in 1..Len(UpperCase) : Ch(UpperCase, i) = c
    THEN Ch(LowerCase, CHOOSE i \in 1..Len(UpperCase) : Ch(UpperCase, i) = c)
    ELSE c

\* s.lower()
RECURSIVE lower(_)
lower(s) ==
    IF s = "" THEN "" ELSE lower_char(Ch(s, 1)) \o lower(DropFirst(s, 1))

\* s.split(): the maximal runs of non-whitespace characters, in order.
RECURSIVE split_ws(_)
split_ws(s) ==
    LET starts == {i \in 1..Len(s) : ~IsSpace(Ch(s, i))}
    IN  IF starts = {}
        THEN <<>>
        ELSE LET b == SetMin(starts)
                 ends == {j \in b..Len(s) : IsSpace(Ch(s, j))}
                 e == IF ends = {} THEN Len(s) + 1 ELSE SetMin(ends)
             IN  <<SubSeq(s, b, e - 1)>> \o split_ws(DropFirst(s, e - 1))

\* set(list)
ToSet(seq) == {seq[i] : i \in 1..Len(seq)}

\* t in s
contains(s, t) == find(s, t) >= 0

PhraseBonus == 10

\* The mutant of overlap_score: the phrase test reads the chunk text as
\* written instead of its lower-cased form.
overlap_score_text_not_lowered(query_lower, query_words, chunk) ==
    LET text_lower == lower(chunk.text)
        text_words == ToSet(split_ws(text_lower))
        overlap == Cardinality(query_words \cap text_words)
    IN  IF contains(chunk.text, query_lower) THEN overlap + PhraseBonus ELSE overlap

\* The score the loop body gives one chunk.
overlap_score(query_lower, query_words, chunk) ==
    LET text_lower == lower(chunk.text)
        text_words == ToSet(split_ws(text_lower))
        overlap == Cardinality(query_words \cap text_words)
    IN  IF contains(text_lower, query_lower) THEN overlap + PhraseBonus ELSE overlap

\* The list scored_chunks at the end of the loop: the chunks that score
\* above 0, with their scores, in pool order.
RECURSIVE score_chunks(_, _, _)
score_chunks(query_lower, query_words, pool) ==
    IF pool = <<>>
    THEN <<>>
    ELSE LET overlap == overlap_score(query_lower, query_words, Head(pool))
             rest == score_chunks(query_lower, query_words, Tail(pool))
         IN  IF overlap > 0
             THEN <<[score |-> overlap, chunk |-> Head(pool)]>> \o rest
             ELSE rest

scored_list(q, pool) ==
    score_chunks(lower(q), ToSet(split_ws(lower(q))), pool)

\* x placed into a list sorted by descending score, behind the entries that
\* score at least as much.
insert_desc(sorted, x) ==
    LET n == Cardinality({i \in 1..Len(sorted) : sorted[i].score >= x.score})
    IN  SubSeq(sorted, 1, n) \o <<x>> \o SubSeq(sorted, n + 1, Len(sorted))

\* x placed before the entries that score no more than it.
insert_desc_front(sorted, x) ==
    LET n == Cardinality({i \in 1..Len(sorted) : sorted[i].score > x.score})
    IN  SubSeq(sorted, 1, n) \o <<x>> \o SubSeq(sorted, n + 1, Len(sorted))

RECURSIVE sort_from(_, _)
sort_from(acc, seq) ==
    IF seq = <<>> THEN acc ELSE sort_from(insert_desc(acc, Head(seq)), Tail(seq))

RECURSIVE sort_from_front(_, _)
sort_from_front(acc, seq) ==
    IF seq = <<>> THEN acc ELSE sort_from_front(insert_desc_front(acc, Head(seq)), Tail(seq))

\* The mutant of sort_by_score_desc: an ascending sort read backwards, which
\* reverses the order of equal scores.
sort_ties_reversed(seq) == sort_from_front(<<>>, seq)

\* list.sort(reverse=True, key=score): descending and stable.
sort_by_score_desc(seq) == sort_from(<<>>, seq)

\* seq[:k] for k >= 0
take(seq, k) == SubSeq(seq, 1, IF k < Len(seq) THEN k ELSE Len(seq))

chunks_only(scored) == [i \in 1..Len(scored) |-> scored[i].chunk]

simple_keyword_search(q, pool, k) ==
    chunks_only(take(sort_by_score_desc(scored_list(q, pool)), k))

-----------------------------------------------------------------------------
(* retrieval.py: retrieve_from_pdf_texts *)

\* The chunks of every document whose pdf_text is truthy (a missing text and
\* the empty text are both falsy: the empty string stands for both).
RECURSIVE chunk_pool(_)
chunk_pool(docs) ==
    IF docs = <<>>
    THEN <<>>
    ELSE (IF Head(docs).pdf_text # ""
          THEN extract_chunks_from_text(Head(docs).pdf_text, Head(docs).filename)
          ELSE <<>>)
         \o chunk_pool(Tail(docs))

Placeholder ==
    [text |-> "No document content available.", page |-> "0", source |-> "System"]

\* The mutant of retrieve_from_pdf_texts for the empty pool: no placeholder.
retrieve_without_placeholder(q, docs, k) ==
    LET pool == chunk_pool(docs)
        relevant_chunks == simple_keyword_search(q, pool, k)
    IN  IF relevant_chunks = <<>> THEN take(pool, k) ELSE relevant_chunks

\* The mutant of retrieve_from_pdf_texts for the fallback: the whole pool
\* instead of its first top_k chunks.
retrieve_fallback_whole_pool(q, docs, k) ==
    LET pool == chunk_pool(docs)
        relevant_chunks == simple_keyword_search(q, pool, k)
    IN  IF pool = <<>>
        THEN <<Placeholder>>
        ELSE IF relevant_chunks = <<>> THEN pool ELSE relevant_chunks

retrieve_from_pdf_texts(q, docs, k) ==
    LET pool == chunk_pool(docs)
        relevant_chunks == simple_keyword_search(q, pool, k)
    IN  IF pool = <<>>
        THEN <<Placeholder>>
        ELSE IF relevant_chunks = <<>> THEN take(pool, k) ELSE relevant_chunks

-----------------------------------------------------------------------------
(* llm_agent.py: answer_with_context, the context it builds.  A string is   *)
(* modelled by its length here: the budget reads nothing else.              *)

max_context_chars == 12000

MaxPromptChunks == 6

MaxChunkText == 1500

\* len(str(i))
DecimalLen(i) == IF i < 10 THEN 1 ELSE IF i < 100 THEN 2 ELSE 3

\* len(text) after the truncation to 1500 characters plus "..."
truncated_len(text) ==
    IF text > MaxChunkText THEN MaxChunkText + Len("...") ELSE text

\* len(f"[Source {i}: {source}, Page {page}]\n{text}\n")
chunk_text_len(i, chunk) ==
    Len("[Source ") + DecimalLen(i) + Len(": ") + chunk.source
    + Len(", Page ") + chunk.page + Len("]\n")
    + truncated_len(chunk.text) + Len("\n")

\* The loop over chunks[:6] from its i-th element on: it stops at the first
\* block that would take the running total over the limit.
RECURSIVE context_loop(_, _, _, _)
context_loop(chs, i, parts, total) ==
    IF i > Len(chs)
    THEN [parts |-> parts, total |-> total]
    ELSE LET chunk_text == chunk_text_len(i, chs[i])
         IN  IF total + chunk_text > max_context_chars
             THEN [parts |-> parts, total |-> total]
             ELSE context_loop(chs, i + 1, Append(parts, chunk_text), total + chunk_text)

RECURSIVE SumLens(_)
SumLens(parts) == IF parts = <<>> THEN 0 ELSE Head(parts) + SumLens(Tail(parts))

\* len("\n".join(parts))
joined_len(parts) ==
    SumLens(parts) + (IF Len(parts) > 0 THEN (Len(parts) - 1) * Len("\n") ELSE 0)

build_context(chs) ==
    LET out == context_loop(take(chs, MaxPromptChunks), 1, <<>>, 0)
    IN  [context_parts |-> out.parts,
         total_chars |-> out.total,
         context_text |-> joined_len(out.parts)]

-----------------------------------------------------------------------------
(* paper_search.py: extract_references_from_text *)

\* Characters the regular expression class \s matches.
IsReSpace(c) == c \in {" ", "\n", "\t", "\r"}

IsUpper(c) == \E i \in 1..Len(UpperCase) : Ch(UpperCase, i) = c

IsDigit(c) == c \in {"0", "1", "2", "3", "4", "5", "6", "7", "8", "9"}

\* The first position at or after i that holds the character c, 0 if none.
NextChar(s, c, i) ==
    LET at == {j \in i..Len(s) : Ch(s, j) = c}
    IN  IF at = {} THEN 0 ELSE SetMin(at)

\* The first position at or after i that holds no \s character (Len(s) + 1
\* when the rest is whitespace).
SkipSpace(s, i) ==
    LET at == {j \in i..Len(s) : ~IsReSpace(Ch(s, j))}
    IN  IF at = {} THEN Len(s) + 1 ELSE SetMin(at)

\* header \s* \n matched at position i: the position where group 1 starts
\* (behind the last newline of the whitespace that follows the header), 0
\* when the header or the newline is not there.
header_at(s, headers, i) ==
    LET hs == {k \in 1..Len(headers) : StartsAt(s, headers[k], i)}
    IN  IF hs = {}
        THEN 0
        ELSE LET p == i + Len(headers[SetMin(hs)])
                 q == SkipSpace(s, p)
                 nls == {j \in p..(q - 1) : Ch(s, j) = "\n"}
             IN  IF nls = {} THEN 0 ELSE SetMax(nls) + 1

\* re.search(header \s*\n (.*?) (?:stop|\Z), s, DOTALL): group 1 of the
\* leftmost match, as [found, text].
search_section(s, headers, stop) ==
    LET at == {i \in 1..Len(s) : header_at(s, headers, i) > 0}
    IN  IF at = {}
        THEN [found |-> FALSE, text |-> ""]
        ELSE LET g == header_at(s, headers, SetMin(at))
                 ends == {e \in g..Len(s) : StartsAt(s, stop, e)}
                 e == IF ends = {} THEN Len(s) + 1 ELSE SetMin(ends)
             IN  [found |-> TRUE, text |-> SubSeq(s, g, e - 1)]

\* [A-Z][^.]+\.\s*\(\d{4}\)[^.]+\. matched at position i: the position of the
\* match's last character, 0 when there is no match at i.
entry_end(s, i) ==
    IF ~(i <= Len(s) /\ IsUpper(Ch(s, i)))
    THEN 0
    ELSE LET d1 == NextChar(s, ".", i + 1)
         IN  IF d1 < i + 2
             THEN 0
             ELSE LET p == SkipSpace(s, d1 + 1)
                  IN  IF ~(/\ p + 5 <= Len(s)
                           /\ Ch(s, p) = "("
                           /\ \A k \in 1..4 : IsDigit(Ch(s, p + k))
                           /\ Ch(s, p + 5) = ")")
                      THEN 0
                      ELSE LET d2 == NextChar(s, ".", p + 6)
                           IN  IF d2 < p + 7 THEN 0 ELSE d2

\* re.findall of the entry pattern: leftmost matches, not overlapping.
RECURSIVE findall_entries(_, _)
findall_entries(s, i) ==
    IF i > Len(s)
    THEN <<>>
    ELSE LET e == entry_end(s, i)
         IN  IF e = 0
             THEN findall_entries(s, i + 1)
             ELSE <<SubSeq(s, i, e)>> \o findall_entries(s, e + 1)

MaxRefsPerDoc == 10

\* The two section patterns, in the order they are tried.
ref_patterns == <<
    [headers |-> <<"references", "bibliography", "works cited">>, stop |-> "\n\n\n"],
    [headers |-> <<"references", "bibliography">>, stop |-> "appendix"] >>

\* The loop over ref_patterns from the k-th pattern on: the first pattern
\* that matches the lower-cased text decides, and its entries are searched in
\* the captured (lower-cased) section.
RECURSIVE references_from(_, _)
references_from(text, k) ==
    IF k > Len(ref_patterns)
    THEN <<>>
    ELSE LET match == search_section(lower(text), ref_patterns[k].headers,
                                     ref_patterns[k].stop)
         IN  IF match.found
             THEN take(findall_entries(match.text, 1), MaxRefsPerDoc)
             ELSE references_from(text, k + 1)

extract_references_from_text(text) == references_from(text, 1)

-----------------------------------------------------------------------------
(* Inputs of the chunker: a preamble followed by marked pages *)

MaxPages == 2

\* Text before the first marker: none, blank, plain words, and words with
\* the marker's closing token in them.
Preambles == {"", " \n", "intro", "a --- b", " --- a", "\n a b \n"}

PageNums == {"1", "2", "10"}

\* Page contents: empty, blank, plain, with the closing token, starting the
\* way a marker continues, and holding an unclosed opening token.
PageBodies == {"", " \n", "\nalpha", "\nx --- y\n", " Page 7 ---z", "\nsee --- Page end"}

Filenames == {"paper", "my notes"}

PageRecs == [num : PageNums, body : PageBodies]

SeqsUpTo(S, n) == UNION {[1..k -> S] : k \in 0..n}

Marker(num) == PageOpen \o num \o PageClose

RECURSIVE PagesText(_)
PagesText(pages) ==
    IF pages = <<>>
    THEN ""
    ELSE Marker(Head(pages).num) \o Head(pages).body \o PagesText(Tail(pages))

DocText(l) == l.pre \o PagesText(l.pages)

\* The number of places of s where t occurs.
Occurrences(s, t) == Cardinality({i \in 1..Len(s) : StartsAt(s, t, i)})

-----------------------------------------------------------------------------
(* The chunker applied to one document *)

ChunkIdle ==
    /\ layout = [pre |-> "", pages |-> <<>>]
    /\ pdf_text = ""
    /\ filename = ""
    /\ chunks = <<>>
    /\ cpc = "idle"

ChunkStart ==
    /\ layout \in [pre : Preambles, pages : SeqsUpTo(PageRecs, MaxPages)]
    /\ pdf_text = DocText(layout)
    /\ filename \in Filenames
    /\ chunks = <<>>
    /\ cpc = "start"

ExtractChunks ==
    /\ cpc = "start"
    /\ chunks' = extract_chunks_from_text(pdf_text, filename)
    /\ cpc' = "done"
    /\ UNCHANGED <<layout, pdf_text, filename>>

-----------------------------------------------------------------------------
(* The assembler applied to a set of documents *)

MaxPdfs == 2

MaxTopK == 3

\* Documents as stored: empty, blank, a marker with no content, and pages of
\* words in mixed case, with repeated words and equal scores across pages.
RetrievalDocs == {
    [pdf_text |-> "", filename |-> "empty"],
    [pdf_text |-> " \n", filename |-> "blank"],
    [pdf_text |-> "--- Page 1 ---\n", filename |-> "nopage"],
    [pdf_text |-> "--- Page 1 ---\nthe cat sat\n\n--- Page 2 ---\nA cat", filename |-> "cats"],
    [pdf_text |-> "--- Page 1 ---\ncat\n\n--- Page 3 ---\nthe dog ran", filename |-> "dogs"],
    [pdf_text |-> "--- Page 1 ---\nThe Cat sat the cat", filename |-> "caps"] }

Queries == {"", "cat", "the cat", "The  cat", "cat sat", "bird"}

RetrievalIdle ==
    /\ query = ""
    /\ pdfs = <<>>
    /\ top_k = 0
    /\ all_chunks = <<>>
    /\ scored_chunks = <<>>
    /\ relevant = <<>>
    /\ rpc = "idle"

RetrievalStart ==
    /\ query \in Queries
    /\ pdfs \in SeqsUpTo(RetrievalDocs, MaxPdfs)
    /\ top_k \in 0..MaxTopK
    /\ all_chunks = <<>>
    /\ scored_chunks = <<>>
    /\ relevant = <<>>
    /\ rpc = "start"

\* One call of retrieve_from_pdf_texts; the pool and the scored list are the
\* locals the call goes through (the scored list stays empty when the pool
\* is empty, as the call returns before it searches).
Retrieve ==
    /\ rpc = "start"
    /\ all_chunks' = chunk_pool(pdfs)
    /\ scored_chunks' = IF chunk_pool(pdfs) = <<>>
                        THEN <<>>
                        ELSE scored_list(query, chunk_pool(pdfs))
    /\ relevant' = retrieve_from_pdf_texts(query, pdfs, top_k)
    /\ rpc' = "done"
    /\ UNCHANGED <<query, pdfs, top_k>>

-----------------------------------------------------------------------------
(* The prompt context built from a chunk list *)

MaxChunks == 7

\* Chunks by the lengths of their text, source and page label: a short one,
\* one whose text is truncated and whose block is 2000 characters long, one
\* at the truncation limit, and one whose source alone exceeds the budget.
PromptChunks == {
    [text |-> 40, source |-> 9, page |-> 1],
    [text |-> 1501, source |-> 475, page |-> 1],
    [text |-> 1500, source |-> 9, page |-> 2],
    [text |-> 10, source |-> 12000, page |-> 1] }

PromptIdle ==
    /\ ctx_chunks = <<>>
    /\ context_parts = <<>>
    /\ total_chars = 0
    /\ context_text = 0
    /\ ppc = "idle"

PromptStart ==
    /\ ctx_chunks \in SeqsUpTo(PromptChunks, MaxChunks)
    /\ context_parts = <<>>
    /\ total_chars = 0
    /\ context_text = 0
    /\ ppc = "start"

BuildContext ==
    /\ ppc = "start"
    /\ context_parts' = build_context(ctx_chunks).context_parts
    /\ total_chars' = build_context(ctx_chunks).total_chars
    /\ context_text' = build_context(ctx_chunks).context_text
    /\ ppc' = "done"
    /\ UNCHANGED ctx_chunks

-----------------------------------------------------------------------------
(* The reference extractor applied to one document *)

MaxEntries == 2

RefHeaders == {"References", "Bibliography", "Works Cited", "REFERENCES", "Related Work"}

RefGaps == {"\n\n", "\n", " "}

RefEntries == {
    "Smith, J. (2020). A Study. Journal.",
    "Doe A. (2019) Deep Nets.",
    "see also smith 2020." }

RefTails == {"", "\n\nAppendix", "\n\n\nNotes. (2021) x."}

RECURSIVE JoinLines(_)
JoinLines(lines) ==
    IF lines = <<>> THEN ""
    ELSE IF Len(lines) = 1 THEN Head(lines)
    ELSE Head(lines) \o "\n" \o JoinLines(Tail(lines))

RefText(d) == d.header \o d.gap \o JoinLines(d.entries) \o d.tail

RefIdle ==
    /\ ref_doc = [header |-> "", gap |-> "", entries |-> <<>>, tail |-> ""]
    /\ ref_input = ""
    /\ references = <<>>
    /\ xpc = "idle"

RefStart ==
    /\ ref_doc \in [header : RefHeaders, gap : RefGaps,
                    entries : SeqsUpTo(RefEntries, MaxEntries), tail : RefTails]
    /\ ref_input = RefText(ref_doc)
    /\ references = <<>>
    /\ xpc = "start"

ExtractReferences ==
    /\ xpc = "start"
    /\ references' = extract_references_from_text(ref_input)
    /\ xpc' = "done"
    /\ UNCHANGED <<ref_doc, ref_input>>

-----------------------------------------------------------------------------
(* The model client.  The model's reply is an opaque string.  A call that   *)
(* raises is a result record with raised = TRUE.                            *)

Returned(v) == [raised |-> FALSE, value |-> v]

Raised(e) == [raised |-> TRUE, value |-> e]

\* What the model replies to the answer prompt and to the related-papers
\* prompt, and the text of the exception a failing call raises.
LLMAnswer == "Cats sit on mats [Source 1]."

LLMRelated == "* **[Feline Studies]** by A. Author (2023)"

LLMError == "Connection error."

-----------------------------------------------------------------------------
(* ingest.py: ingest_pdf_to_text.  An uploaded file is its name, the text   *)
(* of its pages and the fate of the summary's model call.                   *)

Digits == "0123456789"

RECURSIVE str(_)
str(n) == IF n < 10 THEN Ch(Digits, n + 1) ELSE str(n \div 10) \o Ch(Digits, (n % 10) + 1)

\* os.path.splitext(name)[0]: the name without its last extension.
splitext_root(name) ==
    LET dots == {i \in 2..Len(name) : Ch(name, i) = "." /\ \E j \in 1..(i-1) : Ch(name, j) # "."}
    IN  IF dots = {} THEN name ELSE SubSeq(name, 1, SetMax(dots) - 1)

\* Pages numbered by their place among the pages that have text.
pages_text_renumbered(pages, i) ==
    LET kept == SelectSeq(SubSeq(pages, i, Len(pages)), LAMBDA text : strip(text) # "")
    IN  [j \in 1..Len(kept) |-> PageOpen \o str(j) \o PageClose \o "\n" \o kept[j]]

RECURSIVE pages_text_from(_, _)
pages_text_from(pages, i) ==
    IF i > Len(pages)
    THEN <<>>
    ELSE (IF strip(pages[i]) # ""
          THEN <<PageOpen \o str(i) \o PageClose \o "\n" \o pages[i]>>
          ELSE <<>>)
         \o pages_text_from(pages, i + 1)

RECURSIVE join_blank_line(_)
join_blank_line(parts) ==
    IF parts = <<>> THEN ""
    ELSE IF Len(parts) = 1 THEN Head(parts)
    ELSE Head(parts) \o "\n\n" \o join_blank_line(Tail(parts))

max_chars == 20000

ElisionMarker == "\n\n[...]\n\n"

\* full_text[-k:] for k > 0: the last k characters, or the whole text.
last_chars(full_text, k) ==
    SubSeq(full_text, SetMax({1, Len(full_text) - k + 1}), Len(full_text))

\* A reduction that already applies at the threshold.
text_to_summarize_at_threshold(full_text) ==
    IF Len(full_text) >= max_chars
    THEN take(full_text, max_chars \div 2) \o ElisionMarker
         \o last_chars(full_text, max_chars \div 2)
    ELSE full_text

\* The text summarize_document puts in its prompt.
text_to_summarize(full_text) ==
    IF Len(full_text) > max_chars
    THEN take(full_text, max_chars \div 2) \o ElisionMarker
         \o last_chars(full_text, -((-max_chars) \div 2))
    ELSE full_text

LLMSummary == "A study of cats."

summarize_document(full_text, llm) ==
    IF llm = "client"
    THEN Raised(LLMError)
    ELSE IF llm = "invoke"
         THEN Returned("Summary generation failed: " \o LLMError)
         ELSE Returned(strip(LLMSummary))

ingest_pdf_to_text(file) ==
    LET pdf_name == splitext_root(file.filename)
        pages_text == pages_text_from(file.pages, 1)
        full_text == join_blank_line(pages_text)
        summary == summarize_document(full_text, file.llm)
    IN  IF pages_text = <<>>
        THEN [raised |-> TRUE, pdf_text |-> "", summary |-> "", pdf_name |-> pdf_name]
        ELSE [raised |-> FALSE, pdf_text |-> full_text,
              summary |-> IF summary.raised
                          THEN "Document: " \o pdf_name \o ". "
                               \o take(pages_text[1], 300) \o "..."
                          ELSE summary.value,
              pdf_name |-> pdf_name]

\* The files a request can carry: one with text on its first and third page,
\* and a scan without text.
Files == {[filename |-> "cats.v2.pdf", pages |-> <<"the cat sat", " \n", "A cat">>, llm |-> "ok"],
          [filename |-> "scan.pdf", pages |-> <<"", " ">>, llm |-> "invoke"]}

\* The files of a single upload batch: those above, a second document whose
\* summary cannot build its model client, and a file without pages.
UploadFiles ==
    Files \cup
    {[filename |-> "dogs.pdf", pages |-> <<" ", "the dog ran">>, llm |-> "client"],
     [filename |-> "empty.pdf", pages |-> <<>>, llm |-> "ok"]}

\* ingest_pdf_to_text, tabulated over the files a request can carry.
ingested == [file \in UploadFiles |-> ingest_pdf_to_text(file)]

\* Document texts with a reference list: one under a "References" header at
\* the end of the text, one under a "Bibliography" header that both section
\* patterns match, with a second list after the appendix.
CitationTexts ==
    {"--- Page 1 ---\nIntro\n\nReferences\nSmith J. (2020) A Study.",
     "--- Page 1 ---\nBibliography\nDoe A. (2019) Cats.\n\n\nAppendix\nRoe B. (2021) Dogs."}

\* extract_references_from_text, tabulated over the texts a stored document
\* can hold.
doc_references ==
    [text \in {ingested[file].pdf_text : file \in UploadFiles} \cup CitationTexts |->
        extract_references_from_text(text)]

-----------------------------------------------------------------------------
(* llm_agent.py and paper_search.py: the two model calls of a chat and the  *)
(* citations block; env says which calls of the request raise.              *)

NoFaults ==
    [retrieval |-> FALSE, client_answer |-> FALSE, invoke_answer |-> FALSE,
     client_related |-> FALSE, invoke_related |-> FALSE]

ApologyText ==
    "I apologize, but I encountered an error while processing your question. "
    \o "This might be due to the document size. "
    \o "Try asking a more specific question or upload fewer documents."

\* get_llm() is called before the try block: its failure leaves the function.
answer_with_context(question, picked, env) ==
    IF env.client_answer
    THEN Raised(LLMError)
    ELSE IF env.invoke_answer THEN Returned(ApologyText) ELSE Returned(LLMAnswer)

RECURSIVE summary_lines(_)
summary_lines(pdf_summaries) ==
    IF pdf_summaries = <<>>
    THEN ""
    ELSE "- " \o Head(pdf_summaries).summary
         \o (IF Len(pdf_summaries) > 1 THEN "\n" ELSE "")
         \o summary_lines(Tail(pdf_summaries))

\* "\n".join of one line per document of pdf_summaries[:3]
combined_summary(pdf_summaries) == summary_lines(take(pdf_summaries, 3))

RelatedPromptHead ==
    "You are an academic research assistant. Based on the following research "
    \o "papers, suggest 5 highly relevant academic papers.\n\n"
    \o "UPLOADED PAPERS SUMMARY:\n"

RelatedPromptTail ==
    "\n\nGenerate 5 related papers in this EXACT format (use bullet points):\n\n"
    \o "REQUIREMENTS:\n- Use bullet point for each paper\n"
    \o "- Make titles realistic and academic\n- Years between 2019-2025\n"
    \o "- Keep each description to ONE line only\n"
    \o "- No extra formatting or sections\n\n"
    \o "Generate exactly 5 papers with bullet points:"

\* The prompt of generate_related_papers_with_llm (its two sample entries
\* left out).
related_prompt(pdf_summaries, user_response) ==
    RelatedPromptHead \o combined_summary(pdf_summaries) \o RelatedPromptTail

\* What the model answers to a prompt: the same for the same prompt, and here
\* a reply that quotes the prompt, so that two prompts never get one reply.
llm_invoke(prompt) == LLMRelated \o "\n  Suggested for: " \o prompt

\* A prompt that also shows the model the answer of the chat.
generate_related_papers_from_response(pdf_summaries, user_response, env) ==
    IF env.client_related
    THEN Raised(LLMError)
    ELSE IF env.invoke_related
         THEN Returned("Could not generate related papers: " \o LLMError)
         ELSE Returned(llm_invoke(related_prompt(pdf_summaries, user_response)
                                  \o "\n\nANSWER GIVEN:\n" \o user_response))

generate_related_papers_with_llm(pdf_summaries, user_response, env) ==
    IF env.client_related
    THEN Raised(LLMError)
    ELSE IF env.invoke_related
         THEN Returned("Could not generate related papers: " \o LLMError)
         ELSE Returned(llm_invoke(related_prompt(pdf_summaries, user_response)))

RECURSIVE all_references_of(_)
all_references_of(docs) ==
    IF docs = <<>>
    THEN <<>>
    ELSE (IF Head(docs).pdf_text # ""
          THEN doc_references[Head(docs).pdf_text]
          ELSE <<>>)
         \o all_references_of(Tail(docs))

RECURSIVE reference_items(_)
reference_items(refs) ==
    IF refs = <<>>
    THEN ""
    ELSE "<li style='margin: 5px 0; color: #d1d5db;'>" \o Head(refs) \o "</li>"
         \o reference_items(Tail(refs))

\* The two section headers (the pictographs of the source are left out).
ReferencesHeader ==
    "<p style='color: #a78bfa; font-weight: 600; margin: 0 0 10px 0;'>"
    \o "References from Paper:</p>"

RelatedHeader ==
    "<p style='color: #a78bfa; font-weight: 600; margin: 15px 0 10px 0;'>"
    \o "Related Research Papers:</p>"

\* An assembly that leaves the related-papers section out when the model call
\* gave no papers.
search_papers_without_failed_related(docs, response_text, env) ==
    LET related_papers == generate_related_papers_with_llm(docs, response_text, env)
    IN  IF related_papers.raised
        THEN related_papers
        ELSE IF env.invoke_related
             THEN Returned("")
             ELSE Returned(RelatedHeader
                           \o "<div style='color: #d1d5db; line-height: 1.8;'>"
                           \o related_papers.value \o "</div>")

search_papers_from_pdf(docs, response_text, env) ==
    LET all_references == all_references_of(take(docs, 2))
        bibliography ==
            IF all_references # <<>>
            THEN ReferencesHeader
                 \o "<ul style='margin: 0 0 15px 0; padding-left: 20px;'>"
                 \o reference_items(take(all_references, 5))
                 \o "</ul>"
            ELSE ""
        related_papers == generate_related_papers_with_llm(docs, response_text, env)
    IN  IF related_papers.raised
        THEN related_papers
        ELSE Returned(bibliography \o RelatedHeader
                      \o "<div style='color: #d1d5db; line-height: 1.8;'>"
                      \o related_papers.value \o "</div>")

-----------------------------------------------------------------------------
(* app.py: chat_message, from the document test to the except clause *)

DefaultTopK == 6

NoPdfText == "Please upload at least one PDF document before asking questions."

ChatFallback ==
    "I encountered an error while processing your question. Please try again."

Reply(text, cit) == [raised |-> FALSE, response_text |-> text, citations |-> cit]

Fault == [raised |-> TRUE, response_text |-> "", citations |-> ""]

\* The try block ends with the first call that raises.
pipeline_reply(answer, cit) ==
    IF answer.raised \/ cit.raised THEN Fault ELSE Reply(answer.value, cit.value)

pipeline_answer(answer, docs, env) ==
    pipeline_reply(answer, search_papers_from_pdf(docs, answer.value, env))

\* The body of the try block.
chat_pipeline(message, docs, env) ==
    IF env.retrieval
    THEN Fault
    ELSE pipeline_answer(
             answer_with_context(message,
                                 retrieve_from_pdf_texts(message, docs, DefaultTopK),
                                 env),
             docs, env)

\* The except clause: whatever the try block raised becomes the fallback reply.
except_clause(r) == IF r.raised THEN Reply(ChatFallback, "") ELSE r

\* The try block with its except clause taken away: a fault leaves the handler.
chat_reply_without_except(message, docs, env) ==
    IF docs = <<>> THEN Reply(NoPdfText, "") ELSE chat_pipeline(message, docs, env)

chat_reply(message, docs, env) ==
    IF docs = <<>>
    THEN Reply(NoPdfText, "")
    ELSE except_clause(chat_pipeline(message, docs, env))

-----------------------------------------------------------------------------
(* database.py: the tables, and app.py: the session store *)

None == [pending_registration |-> FALSE, google_id |-> "", id |-> 0,
         email |-> "", username |-> ""]

pending_session(g) == [pending_registration |-> TRUE, google_id |-> g, id |-> 0,
                       email |-> "", username |-> ""]

get_session_user(sid) == IF sid \in DOMAIN sessions THEN sessions[sid] ELSE None

get_user_by_google_id(g) ==
    IF \E i \in 1..Len(users) : users[i].google_id = g
    THEN users[CHOOSE i \in 1..Len(users) : users[i].google_id = g]
    ELSE None

\* The INSERT fails on a google_id, email or username that a row already has.
create_user(g, email, username) ==
    IF \E i \in 1..Len(users) : \/ users[i].google_id = g
                                \/ users[i].email = email
                                \/ users[i].username = username
    THEN None
    ELSE [pending_registration |-> FALSE, google_id |-> g, id |-> Len(users) + 1,
          email |-> email, username |-> username]

\* ORDER BY uploaded_at DESC: rows stamped within the same second come in any
\* order, and any two uploads can fall within one second.
get_user_pdfs(user_id) ==
    LET mine == {p \in uploaded_pdfs : p.user_id = user_id}
    IN  {f \in [1..Cardinality(mine) -> mine] : \A p \in mine : \E i \in DOMAIN f : f[i] = p}

get_pdf_by_id(pdf_id) == {p \in uploaded_pdfs : p.id = pdf_id}

\* A loop that gives up at the first file whose ingestion raises.
RECURSIVE store_files_abort_on_failure(_, _, _)
store_files_abort_on_failure(files, user_id, last_id) ==
    IF files = <<>> \/ ingested[Head(files)].raised
    THEN {}
    ELSE {[id |-> last_id + 1, user_id |-> user_id,
           filename |-> ingested[Head(files)].pdf_name,
           pdf_text |-> ingested[Head(files)].pdf_text,
           summary |-> ingested[Head(files)].summary]}
         \cup store_files_abort_on_failure(Tail(files), user_id, last_id + 1)

\* The loop of upload_pdfs: a file whose ingestion raises stores nothing.
RECURSIVE store_files(_, _, _)
store_files(files, user_id, last_id) ==
    IF files = <<>>
    THEN {}
    ELSE LET got == ingested[Head(files)]
         IN  IF got.raised
             THEN store_files(Tail(files), user_id, last_id)
             ELSE {[id |-> last_id + 1, user_id |-> user_id, filename |-> got.pdf_name,
                    pdf_text |-> got.pdf_text, summary |-> got.summary]}
                  \cup store_files(Tail(files), user_id, last_id + 1)

-----------------------------------------------------------------------------
(* Requests: the inputs of the handlers *)

MaxSessions == 2

MaxPdfRows == 2

MaxBatch == 2

MaxChats == 1

\* Histories longer than MaxChats chats are built from plain chats only: the
\* message below, answered without a fault.
MaxPlainChats == 2

PlainMessage == "bird"

MaxUserPdfs == 5

\* The session cookie a request carries; 0 is a request without one.
Cookies == 0..MaxSessions

GoogleIds == {"g-ann", "g-bob"}

RegForms == {[username |-> "ann", email |-> "ann@x.org"],
             [username |-> "bob", email |-> "bob@x.org"]}

Batches == UNION {[1..k -> Files] : k \in 1..MaxBatch}

Messages == {"the cat", "bird"}

\* Which calls of a chat raise: a call that is not reached raises nothing.
Faults ==
    {e \in [retrieval : BOOLEAN, client_answer : BOOLEAN, invoke_answer : BOOLEAN,
            client_related : BOOLEAN, invoke_related : BOOLEAN] :
        /\ e.retrieval => ~(e.client_answer \/ e.invoke_answer
                            \/ e.client_related \/ e.invoke_related)
        /\ e.client_answer => ~(e.invoke_answer \/ e.client_related \/ e.invoke_related)
        /\ e.client_related => ~e.invoke_related}

\* The outcome of a request: the status of the HTTP response; for a chat, the
\* faults met and the pair the handler built; for a chat, delete-pdf or
\* clear-chat of a registered user, the user, the document asked for and the
\* documents whose text the handler used; for a handler that looks the session
\* up, what it found.
Respond(route, status) ==
    [route |-> route, status |-> status,
     faults |-> NoFaults, response_text |-> "", citations |-> "",
     user_id |-> 0, pdf_id |-> 0, pdfs |-> {}, session |-> ""]

\* What get_session_user found for the cookie of a request.
SessionKind(user) ==
    IF user = None THEN "none"
    ELSE IF user.pending_registration THEN "pending" ELSE "user"

\* The response of a handler that starts with get_session_user.
RespondTo(user, route, status) ==
    [Respond(route, status) EXCEPT !.session = SessionKind(user)]

dbVars == <<users, uploaded_pdfs, pdf_seq, chat_history>>

AppIdle ==
    /\ sessions = <<>>
    /\ issued = 0
    /\ users = <<>>
    /\ uploaded_pdfs = {}
    /\ pdf_seq = 0
    /\ chat_history = <<>>
    /\ response = Respond("none", 0)

-----------------------------------------------------------------------------
(* app.py: the handlers.  A KeyError on user['id'], raised for the session  *)
(* of a registration that is still pending, leaves the handler: status 500. *)

\* GET /callback: g is the Google account the code stands for, "" if none.
Callback ==
    \E g \in GoogleIds \cup {""} :
        IF g = ""
        THEN /\ response' = Respond("callback", 400)
             /\ UNCHANGED <<sessions, issued, dbVars>>
        ELSE LET user == get_user_by_google_id(g)
                 sid == issued + 1
             IN  /\ issued < MaxSessions
                 /\ issued' = sid
                 /\ sessions' = (sid :> (IF user = None THEN pending_session(g) ELSE user))
                                @@ sessions
                 /\ response' = Respond("callback", IF user = None THEN 200 ELSE 307)
                 /\ UNCHANGED dbVars

\* A register that creates the user and leaves the session as it was.
register_without_session_update ==
    \E sid \in Cookies, form \in RegForms :
        LET session_data == get_session_user(sid)
        IN  IF sid \notin DOMAIN sessions
            THEN /\ response' = RespondTo(session_data, "register", 401)
                 /\ UNCHANGED <<sessions, issued, dbVars>>
            ELSE IF ~sessions[sid].pending_registration
            THEN /\ response' = RespondTo(session_data, "register", 400)
                 /\ UNCHANGED <<sessions, issued, dbVars>>
            ELSE LET user == create_user(sessions[sid].google_id, form.email, form.username)
                 IN  IF user = None
                     THEN /\ response' = RespondTo(session_data, "register", 400)
                          /\ UNCHANGED <<sessions, issued, dbVars>>
                     ELSE /\ users' = Append(users, user)
                          /\ response' = RespondTo(session_data, "register", 303)
                          /\ UNCHANGED <<sessions, issued, uploaded_pdfs, pdf_seq,
                                         chat_history>>

\* POST /register; the response records the kind of session the request came
\* with.
Register ==
    \E sid \in Cookies, form \in RegForms :
        LET session_data == get_session_user(sid)
        IN  IF sid \notin DOMAIN sessions
            THEN /\ response' = RespondTo(session_data, "register", 401)
                 /\ UNCHANGED <<sessions, issued, dbVars>>
            ELSE IF ~sessions[sid].pending_registration
            THEN /\ response' = RespondTo(session_data, "register", 400)
                 /\ UNCHANGED <<sessions, issued, dbVars>>
            ELSE LET user == create_user(sessions[sid].google_id, form.email, form.username)
                 IN  IF user = None
                     THEN /\ response' = RespondTo(session_data, "register", 400)
                          /\ UNCHANGED <<sessions, issued, dbVars>>
                     ELSE /\ users' = Append(users, user)
                          /\ sessions' = [sessions EXCEPT ![sid] = user]
                          /\ response' = RespondTo(session_data, "register", 303)
                          /\ UNCHANGED <<issued, uploaded_pdfs, pdf_seq, chat_history>>

\* GET /chat
ChatPage ==
    \E sid \in Cookies :
        LET user == get_session_user(sid)
        IN  /\ response' = RespondTo(user, "chat_page",
                                   IF user = None THEN 307
                                   ELSE IF user.pending_registration THEN 500 ELSE 200)
            /\ UNCHANGED <<sessions, issued, dbVars>>

\* POST /upload
Upload ==
    \E sid \in Cookies, files \in Batches :
        LET user == get_session_user(sid)
            current_pdfs == {p \in uploaded_pdfs : p.user_id = user.id}
            stored == store_files(files, user.id, pdf_seq)
        IN  IF user = None \/ user.pending_registration
            THEN /\ response' = RespondTo(user, "upload", IF user = None THEN 401 ELSE 500)
                 /\ UNCHANGED <<sessions, issued, dbVars>>
            ELSE IF Cardinality(current_pdfs) + Len(files) > MaxUserPdfs
            THEN /\ response' = RespondTo(user, "upload", 400)
                 /\ UNCHANGED <<sessions, issued, dbVars>>
            ELSE /\ pdf_seq + Cardinality(stored) <= MaxPdfRows
                 /\ uploaded_pdfs' = uploaded_pdfs \cup stored
                 /\ pdf_seq' = pdf_seq + Cardinality(stored)
                 /\ response' = RespondTo(user, "upload", 303)
                 /\ UNCHANGED <<sessions, issued, users, chat_history>>

PlainHistory ==
    \A i \in DOMAIN chat_history :
        IF chat_history[i].role = "user"
        THEN chat_history[i].content = PlainMessage
        ELSE /\ chat_history[i].content \in {NoPdfText, LLMAnswer}
             /\ ~contains(chat_history[i].citations, LLMError)

\* The histories explored: up to MaxChats chats of any kind, or up to
\* MaxPlainChats plain ones.
WithinHistoryBound(message, env) ==
    \/ Len(chat_history) < 2 * MaxChats
    \/ /\ Len(chat_history) < 2 * MaxPlainChats
       /\ message = PlainMessage
       /\ env = NoFaults
       /\ PlainHistory

\* The end of chat_message: both messages are saved and the page reloads.
save_chat(user_id, docs, message, env, reply) ==
    IF reply.raised
    THEN /\ response' = [Respond("chat", 500) EXCEPT
                            !.session = "user",
                            !.faults = env,
                            !.user_id = user_id,
                            !.pdfs = {docs[i].id : i \in DOMAIN docs}]
         /\ UNCHANGED <<sessions, issued, dbVars>>
    ELSE /\ WithinHistoryBound(message, env)
         /\ chat_history' = chat_history \o
                <<[user_id |-> user_id, role |-> "user",
                   content |-> message, citations |-> ""],
                  [user_id |-> user_id, role |-> "assistant",
                   content |-> reply.response_text, citations |-> reply.citations]>>
         /\ response' = [Respond("chat", 303) EXCEPT
                            !.session = "user",
                            !.faults = env,
                            !.response_text = reply.response_text,
                            !.citations = reply.citations,
                            !.user_id = user_id,
                            !.pdfs = {docs[i].id : i \in DOMAIN docs}]
         /\ UNCHANGED <<sessions, issued, users, uploaded_pdfs, pdf_seq>>

\* POST /chat
ChatMessage ==
    \E sid \in Cookies, message \in Messages, env \in Faults :
        LET user == get_session_user(sid)
        IN  IF user = None \/ user.pending_registration
            THEN /\ env = NoFaults
                 /\ response' = RespondTo(user, "chat", IF user = None THEN 401 ELSE 500)
                 /\ UNCHANGED <<sessions, issued, dbVars>>
            ELSE \E docs \in get_user_pdfs(user.id) :
                     /\ docs = <<>> => env = NoFaults
                     /\ save_chat(user.id, docs, message, env, chat_reply(message, docs, env))

\* A delete-pdf that removes the document asked for, whoever owns it.
delete_pdf_route_unchecked ==
    \E sid \in Cookies, pdf_id \in 1..MaxPdfRows :
        LET user == get_session_user(sid)
        IN  IF user = None
            THEN /\ response' = RespondTo(user, "delete_pdf", 401)
                 /\ UNCHANGED <<sessions, issued, dbVars>>
            ELSE /\ uploaded_pdfs' = uploaded_pdfs \ get_pdf_by_id(pdf_id)
                 /\ response' = [RespondTo(user, "delete_pdf", 303) EXCEPT
                                    !.user_id = user.id, !.pdf_id = pdf_id]
                 /\ UNCHANGED <<sessions, issued, users, pdf_seq, chat_history>>

\* GET /delete-pdf/{pdf_id}
DeletePdf ==
    \E sid \in Cookies, pdf_id \in 1..MaxPdfRows :
        LET user == get_session_user(sid)
            pdf == get_pdf_by_id(pdf_id)
        IN  IF user = None
            THEN /\ response' = RespondTo(user, "delete_pdf", 401)
                 /\ UNCHANGED <<sessions, issued, dbVars>>
            ELSE IF pdf # {} /\ user.pending_registration
            THEN /\ response' = RespondTo(user, "delete_pdf", 500)
                 /\ UNCHANGED <<sessions, issued, dbVars>>
            ELSE /\ uploaded_pdfs' = uploaded_pdfs \ {p \in pdf : p.user_id = user.id}
                 /\ response' = [RespondTo(user, "delete_pdf", 303) EXCEPT
                                    !.user_id = user.id, !.pdf_id = pdf_id]
                 /\ UNCHANGED <<sessions, issued, users, pdf_seq, chat_history>>

\* A clear-chat that removes the oldest message of the user only.
clear_chat_route_oldest_only ==
    \E sid \in Cookies :
        LET user == get_session_user(sid)
            mine == {i \in DOMAIN chat_history : chat_history[i].user_id = user.id}
        IN  IF user = None \/ user.pending_registration
            THEN /\ response' = RespondTo(user, "clear_chat", IF user = None THEN 401 ELSE 500)
                 /\ UNCHANGED <<sessions, issued, dbVars>>
            ELSE /\ chat_history' =
                        IF mine = {}
                        THEN chat_history
                        ELSE SubSeq(chat_history, 1, SetMin(mine) - 1)
                             \o SubSeq(chat_history, SetMin(mine) + 1, Len(chat_history))
                 /\ uploaded_pdfs' = {p \in uploaded_pdfs : p.user_id # user.id}
                 /\ response' = [RespondTo(user, "clear_chat", 303) EXCEPT !.user_id = user.id]
                 /\ UNCHANGED <<sessions, issued, users, pdf_seq>>

\* GET /clear-chat
ClearChat ==
    \E sid \in Cookies :
        LET user == get_session_user(sid)
        IN  IF user = None \/ user.pending_registration
            THEN /\ response' = RespondTo(user, "clear_chat", IF user = None THEN 401 ELSE 500)
                 /\ UNCHANGED <<sessions, issued, dbVars>>
            ELSE /\ chat_history' = SelectSeq(chat_history, LAMBDA r : r.user_id # user.id)
                 /\ uploaded_pdfs' = {p \in uploaded_pdfs : p.user_id # user.id}
                 /\ response' = [RespondTo(user, "clear_chat", 303) EXCEPT !.user_id = user.id]
                 /\ UNCHANGED <<sessions, issued, users, pdf_seq>>

\* A logout that ends every session of the user whose session it is sent.
logout_everywhere ==
    \E sid \in Cookies :
        /\ sessions' = [s \in {t \in DOMAIN sessions :
                                  /\ t # sid
                                  /\ sessions[t].id # get_session_user(sid).id} |->
                            sessions[s]]
        /\ response' = [Respond("logout", 307) EXCEPT
                           !.user_id = get_session_user(sid).id]
        /\ UNCHANGED <<issued, dbVars>>

\* GET /logout; the response records whose session was ended (0: nobody's).
Logout ==
    \E sid \in Cookies :
        /\ sessions' = [s \in DOMAIN sessions \ {sid} |-> sessions[s]]
        /\ response' = [Respond("logout", 307) EXCEPT
                           !.user_id = get_session_user(sid).id]
        /\ UNCHANGED <<issued, dbVars>>

-----------------------------------------------------------------------------
(* One upload request on its own: a batch of files sent by a user who      *)
(* already has some documents.                                              *)

MaxUploadBatch == 3

UploadBatches == UNION {[1..k -> UploadFiles] : k \in 1..MaxUploadBatch}

UploadIdle ==
    /\ up_files = <<>>
    /\ up_current = 0
    /\ up_stored = {}
    /\ up_status = 0
    /\ upc = "idle"

UploadStart ==
    /\ up_files \in UploadBatches
    /\ up_current \in 0..MaxUserPdfs
    /\ up_stored = {}
    /\ up_status = 0
    /\ upc = "start"

\* upload_pdfs for an authenticated user: the count limit, then the loop.
UploadBatch ==
    /\ upc = "start"
    /\ IF up_current + Len(up_files) > MaxUserPdfs
       THEN /\ up_status' = 400
            /\ up_stored' = {}
       ELSE /\ up_status' = 303
            /\ up_stored' = store_files(up_files, 1, up_current)
    /\ upc' = "done"
    /\ UNCHANGED <<up_files, up_current>>

-----------------------------------------------------------------------------
(* One call of search_papers_from_pdf on its own: the documents of a user,  *)
(* the answer of the chat and the faults of the related-papers model call.  *)

MaxCitationDocs == 3

\* Rows as get_user_pdfs returns them: a text (empty for a row without text)
\* and a summary.
CitationDocs ==
    {[pdf_text |-> text, summary |-> LLMSummary] :
        text \in CitationTexts \cup {"", ingested[CHOOSE file \in Files : ~ingested[file].raised].pdf_text}}

CitationDocLists == UNION {[1..k -> CitationDocs] : k \in 0..MaxCitationDocs}

CitationFaults ==
    {e \in Faults : ~(e.retrieval \/ e.client_answer \/ e.invoke_answer)}

\* Answers of the chat: with one source marker, without any, with two others.
MarkedAnswer == "Dogs run [Source 2] and bark [Source 3, Page 4]."

AnswerTexts == {LLMAnswer, ApologyText, MarkedAnswer}

CitationIdle ==
    /\ cit_docs = <<>>
    /\ cit_answer = ""
    /\ cit_env = NoFaults
    /\ cit_refs = <<>>
    /\ cit_result = Returned("")
    /\ spc = "idle"

CitationStart ==
    /\ cit_docs \in CitationDocLists
    /\ cit_answer \in AnswerTexts
    /\ cit_env \in CitationFaults
    /\ cit_refs = <<>>
    /\ cit_result = Returned("")
    /\ spc = "start"

\* search_papers_from_pdf; cit_refs is its local all_references.
SearchPapers ==
    /\ spc = "start"
    /\ cit_refs' = all_references_of(take(cit_docs, 2))
    /\ cit_result' = search_papers_from_pdf(cit_docs, cit_answer, cit_env)
    /\ spc' = "done"
    /\ UNCHANGED <<cit_docs, cit_answer, cit_env>>

-----------------------------------------------------------------------------
(* One call of summarize_document on its own: texts whose lengths lie on    *)
(* both sides of the threshold.                                             *)

MaxSpan == 30

RECURSIVE Repeat(_, _)
Repeat(char, n) ==
    IF n = 0 THEN ""
    ELSE IF n % 2 = 1
         THEN char \o Repeat(char, n - 1)
         ELSE LET half == Repeat(char, n \div 2) IN half \o half

HeadRun == Repeat("a", 10000)

MiddleRun == Repeat("b", MaxSpan)

TailRun == Repeat("c", 10000)

\* A text of n characters: its first 10,000 characters are "a", its last
\* 10,000 "c" and any character in between is "b".
SummaryText(n) ==
    LET heads == IF n < 10000 THEN n ELSE 10000
        tails == IF n - heads < 10000 THEN n - heads ELSE 10000
    IN  take(HeadRun, heads) \o take(MiddleRun, n - heads - tails)
        \o take(TailRun, tails)

SummaryLengths == (max_chars - MaxSpan)..(max_chars + MaxSpan)

SummaryTexts == [n \in SummaryLengths |-> SummaryText(n)]

NoPrompt == "(none)"

SummaryIdle ==
    /\ sum_len = 0
    /\ sum_llm = "ok"
    /\ sum_input = NoPrompt
    /\ sum_result = Returned("")
    /\ mpc = "idle"

SummaryStart ==
    /\ sum_len \in SummaryLengths
    /\ sum_llm \in {"ok", "client", "invoke"}
    /\ sum_input = NoPrompt
    /\ sum_result = Returned("")
    /\ mpc = "start"

\* summarize_document; sum_input is the document text of the prompt handed
\* to the model, which is not reached when the client cannot be built.
Summarize ==
    /\ mpc = "start"
    /\ sum_input' = IF sum_llm = "client"
                    THEN NoPrompt
                    ELSE text_to_summarize(SummaryTexts[sum_len])
    /\ sum_result' = summarize_document(SummaryTexts[sum_len], sum_llm)
    /\ mpc' = "done"
    /\ UNCHANGED <<sum_len, sum_llm>>

-----------------------------------------------------------------------------
(* llm_agent.py: the blocks of the prompt context as text.  A chunk is      *)
(* either a dict, given by its items in insertion order, or another value,  *)
(* given by its str().                                                      *)

Dict(items) == [dict |-> TRUE, items |-> items, value |-> ""]

Plain(value) == [dict |-> FALSE, items |-> <<>>, value |-> value]

\* chunk.get(key, default)
dict_get(chunk, key, default) ==
    LET at == {i \in DOMAIN chunk.items : chunk.items[i][1] = key}
    IN  IF at = {} THEN default ELSE chunk.items[SetMin(at)][2]

\* str() of a dict of strings: {'key': 'value', ...}
RECURSIVE repr_items(_)
repr_items(items) ==
    IF items = <<>>
    THEN ""
    ELSE "'" \o Head(items)[1] \o "': '" \o Head(items)[2] \o "'"
         \o (IF Len(items) > 1 THEN ", " ELSE "") \o repr_items(Tail(items))

str_of_chunk(chunk) ==
    IF chunk.dict THEN "{" \o repr_items(chunk.items) \o "}" ELSE chunk.value

\* text[:1500] + "..." for a text of more than 1500 characters
truncated(text) ==
    IF Len(text) > MaxChunkText THEN take(text, MaxChunkText) \o "..." ELSE text

\* Blocks that show "?" and "Document" where a dict lacks the page or source.
chunk_block_other_defaults(i, chunk) ==
    "[Source " \o str(i) \o ": "
    \o (IF chunk.dict THEN dict_get(chunk, "source", "Document") ELSE "Document")
    \o ", Page "
    \o (IF chunk.dict THEN dict_get(chunk, "page", "?") ELSE "N/A")
    \o "]\n"
    \o truncated(IF chunk.dict
                 THEN dict_get(chunk, "text", str_of_chunk(chunk))
                 ELSE str_of_chunk(chunk))
    \o "\n"

\* f"[Source {i}: {source}, Page {page}]\n{text}\n"
chunk_block(i, chunk) ==
    "[Source " \o str(i) \o ": "
    \o (IF chunk.dict THEN dict_get(chunk, "source", "Unknown") ELSE "Document")
    \o ", Page "
    \o (IF chunk.dict THEN dict_get(chunk, "page", "N/A") ELSE "N/A")
    \o "]\n"
    \o truncated(IF chunk.dict
                 THEN dict_get(chunk, "text", str_of_chunk(chunk))
                 ELSE str_of_chunk(chunk))
    \o "\n"

\* A loop that passes over a block that does not fit and goes on.
RECURSIVE block_loop_passing_over(_, _, _, _)
block_loop_passing_over(chs, i, parts, total) ==
    IF i > Len(chs)
    THEN [parts |-> parts, total |-> total]
    ELSE IF total + Len(chunk_block(i, chs[i])) > max_context_chars
         THEN block_loop_passing_over(chs, i + 1, parts, total)
         ELSE block_loop_passing_over(chs, i + 1, Append(parts, chunk_block(i, chs[i])),
                                      total + Len(chunk_block(i, chs[i])))

\* The loop over chunks[:6] from its i-th element on, with the blocks as text.
RECURSIVE block_loop(_, _, _, _)
block_loop(chs, i, parts, total) ==
    IF i > Len(chs)
    THEN [parts |-> parts, total |-> total]
    ELSE IF total + Len(chunk_block(i, chs[i])) > max_context_chars
         THEN [parts |-> parts, total |-> total]
         ELSE block_loop(chs, i + 1, Append(parts, chunk_block(i, chs[i])),
                         total + Len(chunk_block(i, chs[i])))

-----------------------------------------------------------------------------
(* The blocks of one prompt *)

MaxBlockChunks == 4

\* Chunks: a complete one, one without page, one without source, one without
\* either, one without text, one that is not a dict, and one whose block is
\* 6000 characters long.
BlockChunks ==
    {Dict(<<<<"text", "cats sit">>, <<"page", "2">>, <<"source", "a.pdf">>>>),
     Dict(<<<<"text", "cats sit">>, <<"source", "a.pdf">>>>),
     Dict(<<<<"text", "cats sit">>, <<"page", "2">>>>),
     Dict(<<<<"text", "cats sit">>>>),
     Dict(<<<<"page", "2">>, <<"source", "a.pdf">>>>),
     Plain("cats sit"),
     Dict(<<<<"text", Repeat("x", 1501)>>, <<"page", "3">>,
            <<"source", Repeat("s", 4475)>>>>)}

BlockIdle ==
    /\ blk_chunks = <<>>
    /\ blk_parts = <<>>
    /\ blk_total = 0
    /\ bpc = "idle"

BlockStart ==
    /\ blk_chunks \in SeqsUpTo(BlockChunks, MaxBlockChunks)
    /\ blk_parts = <<>>
    /\ blk_total = 0
    /\ bpc = "start"

\* answer_with_context, up to the join of the blocks.
BuildBlocks ==
    /\ bpc = "start"
    /\ blk_parts' = block_loop(take(blk_chunks, MaxPromptChunks), 1, <<>>, 0).parts
    /\ blk_total' = block_loop(take(blk_chunks, MaxPromptChunks), 1, <<>>, 0).total
    /\ bpc' = "done"
    /\ UNCHANGED blk_chunks

-----------------------------------------------------------------------------
(* The documents of one registered user through a sequence of upload,       *)
(* delete-pdf and clear-chat requests.                                      *)

MaxLibraryIds == 6

LibraryLast(route, status, batch) == [route |-> route, status |-> status, batch |-> batch]

LibraryIdle ==
    /\ lib_rows = {}
    /\ lib_seq = 0
    /\ lib_last = LibraryLast("none", 0, 0)
    /\ lpc = "idle"

\* A user who has just registered: no document yet.
LibraryStart ==
    /\ lib_rows = {}
    /\ lib_seq = 0
    /\ lib_last = LibraryLast("none", 0, 0)
    /\ lpc = "ready"

\* An upload that tests the documents stored against the limit, not the
\* documents stored together with the files sent.
upload_pdfs_counting_stored_only ==
    \E files \in UploadBatches :
        /\ lpc = "ready"
        /\ lib_seq + Len(files) <= MaxLibraryIds
        /\ IF Cardinality(lib_rows) > MaxUserPdfs
           THEN /\ lib_last' = LibraryLast("upload", 400, Len(files))
                /\ UNCHANGED <<lib_rows, lib_seq>>
           ELSE /\ lib_rows' = lib_rows \cup store_files(files, 1, lib_seq)
                /\ lib_seq' = lib_seq + Cardinality(store_files(files, 1, lib_seq))
                /\ lib_last' = LibraryLast("upload", 303, Len(files))
        /\ UNCHANGED lpc

\* upload_pdfs for the user
LibraryUpload ==
    \E files \in UploadBatches :
        /\ lpc = "ready"
        /\ lib_seq + Len(files) <= MaxLibraryIds
        /\ IF Cardinality(lib_rows) + Len(files) > MaxUserPdfs
           THEN /\ lib_last' = LibraryLast("upload", 400, Len(files))
                /\ UNCHANGED <<lib_rows, lib_seq>>
           ELSE /\ lib_rows' = lib_rows \cup store_files(files, 1, lib_seq)
                /\ lib_seq' = lib_seq + Cardinality(store_files(files, 1, lib_seq))
                /\ lib_last' = LibraryLast("upload", 303, Len(files))
        /\ UNCHANGED lpc

\* delete_pdf_route for the user, with any document id
LibraryDelete ==
    \E pdf_id \in 1..MaxLibraryIds :
        /\ lpc = "ready"
        /\ lib_rows' = {p \in lib_rows : p.id # pdf_id}
        /\ lib_last' = LibraryLast("delete_pdf", 303, 0)
        /\ UNCHANGED <<lib_seq, lpc>>

\* clear_chat_route for the user
LibraryClear ==
    /\ lpc = "ready"
    /\ lib_rows' = {}
    /\ lib_last' = LibraryLast("clear_chat", 303, 0)
    /\ UNCHANGED <<lib_seq, lpc>>

-----------------------------------------------------------------------------
(* ingest.py then retrieval.py: the text ingest_pdf_to_text makes of the    *)
(* pages of a file, given to extract_chunks_from_text.                      *)

MaxRoundPages == 3

\* Page texts as page.extract_text() gives them: none, blank, plain, with
\* white space around, with the closing token inside, with the page-marker
\* token inside.
RoundPageTexts ==
    {"", " \n", "cats sit", " the dog \n", "a --- b", "see --- Page end"}

RoundPages == UNION {[1..k -> RoundPageTexts] : k \in 0..MaxRoundPages}

RoundFile(pages) == [filename |-> "paper.pdf", pages |-> pages, llm |-> "ok"]

RoundIdle ==
    /\ rt_pages = <<>>
    /\ rt_doc = [raised |-> FALSE, pdf_text |-> "", summary |-> "", pdf_name |-> ""]
    /\ rt_chunks = <<>>
    /\ tpc = "idle"

RoundStart ==
    /\ rt_pages \in RoundPages
    /\ rt_doc = [raised |-> FALSE, pdf_text |-> "", summary |-> "", pdf_name |-> ""]
    /\ rt_chunks = <<>>
    /\ tpc = "start"

\* ingest_pdf_to_text on the uploaded file
RoundIngest ==
    /\ tpc = "start"
    /\ rt_doc' = ingest_pdf_to_text(RoundFile(rt_pages))
    /\ tpc' = IF rt_doc'.raised THEN "failed" ELSE "ingested"
    /\ UNCHANGED <<rt_pages, rt_chunks>>

\* extract_chunks_from_text on the stored text
RoundChunk ==
    /\ tpc = "ingested"
    /\ rt_chunks' = extract_chunks_from_text(rt_doc.pdf_text, rt_doc.pdf_name)
    /\ tpc' = "chunked"
    /\ UNCHANGED <<rt_pages, rt_doc>>
-----------------------------------------------------------------------------
(* Specifications *)

ChunkInit == ChunkStart /\ RetrievalIdle /\ PromptIdle /\ RefIdle
    /\ UploadIdle /\ CitationIdle /\ SummaryIdle /\ BlockIdle /\ LibraryIdle
    /\ RoundIdle /\ AppIdle

ChunkNext == ExtractChunks /\ UNCHANGED <<retrievalVars, promptVars, refVars,
    uploadVars, citationVars, summaryVars, blockVars, libraryVars, roundVars,
    appVars>>

SpecChunk == ChunkInit /\ [][ChunkNext]_vars

RetrievalInit == RetrievalStart /\ ChunkIdle /\ PromptIdle /\ RefIdle
    /\ UploadIdle /\ CitationIdle /\ SummaryIdle /\ BlockIdle /\ LibraryIdle
    /\ RoundIdle /\ AppIdle

RetrievalNext == Retrieve /\ UNCHANGED <<chunkVars, promptVars, refVars,
    uploadVars, citationVars, summaryVars, blockVars, libraryVars, roundVars,
    appVars>>

SpecRetrieval == RetrievalInit /\ [][RetrievalNext]_vars

PromptInit == PromptStart /\ ChunkIdle /\ RetrievalIdle /\ RefIdle
    /\ UploadIdle /\ CitationIdle /\ SummaryIdle /\ BlockIdle /\ LibraryIdle
    /\ RoundIdle /\ AppIdle

PromptNext == BuildContext /\ UNCHANGED <<chunkVars, retrievalVars, refVars,
    uploadVars, citationVars, summaryVars, blockVars, libraryVars, roundVars,
    appVars>>

SpecPrompt == PromptInit /\ [][PromptNext]_vars

RefInit == RefStart /\ ChunkIdle /\ RetrievalIdle /\ PromptIdle
    /\ UploadIdle /\ CitationIdle /\ SummaryIdle /\ BlockIdle /\ LibraryIdle
    /\ RoundIdle /\ AppIdle

RefNext == ExtractReferences /\ UNCHANGED <<chunkVars, retrievalVars,
    promptVars, uploadVars, citationVars, summaryVars, blockVars,
    libraryVars, roundVars, appVars>>

SpecRefs == RefInit /\ [][RefNext]_vars

UploadInit == UploadStart /\ ChunkIdle /\ RetrievalIdle /\ PromptIdle
    /\ RefIdle /\ CitationIdle /\ SummaryIdle /\ BlockIdle /\ LibraryIdle
    /\ RoundIdle /\ AppIdle

UploadNext == UploadBatch /\ UNCHANGED <<chunkVars, retrievalVars,
    promptVars, refVars, citationVars, summaryVars, blockVars, libraryVars,
    roundVars, appVars>>

SpecUpload == UploadInit /\ [][UploadNext]_vars

CitationInit == CitationStart /\ ChunkIdle /\ RetrievalIdle /\ PromptIdle
    /\ RefIdle /\ UploadIdle /\ SummaryIdle /\ BlockIdle /\ LibraryIdle
    /\ RoundIdle /\ AppIdle

CitationNext == SearchPapers /\ UNCHANGED <<chunkVars, retrievalVars,
    promptVars, refVars, uploadVars, summaryVars, blockVars, libraryVars,
    roundVars, appVars>>

SpecCitations == CitationInit /\ [][CitationNext]_vars

SummaryInit == SummaryStart /\ ChunkIdle /\ RetrievalIdle /\ PromptIdle
    /\ RefIdle /\ UploadIdle /\ CitationIdle /\ BlockIdle /\ LibraryIdle
    /\ RoundIdle /\ AppIdle

SummaryNext == Summarize /\ UNCHANGED <<chunkVars, retrievalVars, promptVars,
    refVars, uploadVars, citationVars, blockVars, libraryVars, roundVars,
    appVars>>

SpecSummary == SummaryInit /\ [][SummaryNext]_vars

BlockInit == BlockStart /\ ChunkIdle /\ RetrievalIdle /\ PromptIdle
    /\ RefIdle /\ UploadIdle /\ CitationIdle /\ SummaryIdle /\ LibraryIdle
    /\ RoundIdle /\ AppIdle

BlockNext == BuildBlocks /\ UNCHANGED <<chunkVars, retrievalVars, promptVars,
    refVars, uploadVars, citationVars, summaryVars, libraryVars, roundVars,
    appVars>>

SpecBlocks == BlockInit /\ [][BlockNext]_vars

LibraryInit == LibraryStart /\ ChunkIdle /\ RetrievalIdle /\ PromptIdle
    /\ RefIdle /\ UploadIdle /\ CitationIdle /\ SummaryIdle /\ BlockIdle
    /\ RoundIdle /\ AppIdle

LibraryOthers == <<chunkVars, retrievalVars, promptVars, refVars, uploadVars,
    citationVars, summaryVars, blockVars, roundVars, appVars>>

LibraryNext ==
    \/ LibraryUpload /\ UNCHANGED LibraryOthers
    \/ LibraryDelete /\ UNCHANGED LibraryOthers
    \/ LibraryClear /\ UNCHANGED LibraryOthers

SpecLibrary == LibraryInit /\ [][LibraryNext]_vars

RoundInit == RoundStart /\ ChunkIdle /\ RetrievalIdle /\ PromptIdle
    /\ RefIdle /\ UploadIdle /\ CitationIdle /\ SummaryIdle /\ BlockIdle
    /\ LibraryIdle /\ AppIdle

RoundOthers == <<chunkVars, retrievalVars, promptVars, refVars, uploadVars,
    citationVars, summaryVars, blockVars, libraryVars, appVars>>

RoundNext ==
    \/ RoundIngest /\ UNCHANGED RoundOthers
    \/ RoundChunk /\ UNCHANGED RoundOthers

SpecRound == RoundInit /\ [][RoundNext]_vars

Init == AppIdle /\ ChunkIdle /\ RetrievalIdle /\ PromptIdle /\ RefIdle
    /\ UploadIdle /\ CitationIdle /\ SummaryIdle /\ BlockIdle /\ LibraryIdle
    /\ RoundIdle

pipelineVars == <<chunkVars, retrievalVars, promptVars, refVars, uploadVars,
    citationVars, summaryVars, blockVars, libraryVars, roundVars>>

Next ==
    \/ Callback /\ UNCHANGED pipelineVars
    \/ Register /\ UNCHANGED pipelineVars
    \/ ChatPage /\ UNCHANGED pipelineVars
    \/ Upload /\ UNCHANGED pipelineVars
    \/ ChatMessage /\ UNCHANGED pipelineVars
    \/ DeletePdf /\ UNCHANGED pipelineVars
    \/ ClearChat /\ UNCHANGED pipelineVars
    \/ Logout /\ UNCHANGED pipelineVars

Spec == Init /\ [][Next]_vars

-----------------------------------------------------------------------------
(* Claims about the chunker *)

\* Every page of the layout has content that is not blank.
AllPagesNonBlank ==
    \A i \in 1..Len(layout.pages) : strip(layout.pages[i].body) # ""

\* One chunk per marker, in order, with the marker's number and the filename.
ChunkPerMarker ==
    /\ Len(chunks) = Len(layout.pages)
    /\ \A i \in 1..Len(chunks) :
          /\ chunks[i].page = layout.pages[i].num
          /\ chunks[i].source = filename

\* C4 as stated: for any document text containing k (at least one) page
\* markers '--- Page <n> ---', each followed by non-empty page content, the
\* chunker returns exactly k chunks, in document order, the i-th carrying the
\* i-th marker's page label and the filename.
C4_AnyTextWithMarkers ==
    (cpc = "done" /\ Len(layout.pages) >= 1 /\ AllPagesNonBlank) => ChunkPerMarker

\* C4 amended: the same, for a text that has nothing but whitespace before its
\* first marker and in which the token '--- Page ' occurs only where the k
\* markers begin.
C4_ChunkPerMarker ==
    (/\ cpc = "done"
     /\ Len(layout.pages) >= 1
     /\ AllPagesNonBlank
     /\ strip(layout.pre) = ""
     /\ Occurrences(pdf_text, PageOpen) = Len(layout.pages))
    => ChunkPerMarker

\* C4 witness: a two-page document with different page numbers was chunked
\* into two chunks.
C4_Witness ==
    /\ cpc = "done"
    /\ Len(layout.pages) = 2
    /\ AllPagesNonBlank
    /\ strip(layout.pre) = ""
    /\ Occurrences(pdf_text, PageOpen) = 2
    /\ layout.pages[1].num # layout.pages[2].num
    /\ Len(chunks) = 2
    /\ chunks[2].page = "10"

\* C5 as stated, on its non-blank inputs: a document text that holds no page
\* marker (not even the marker's opening token) yields exactly one chunk,
\* labelled "1", whose text is the whole trimmed text.
C5_NoMarkerOneChunk ==
    (cpc = "done" /\ Occurrences(pdf_text, PageOpen) = 0 /\ strip(pdf_text) # "")
    => chunks = <<[text |-> strip(pdf_text), page |-> "1", source |-> filename]>>

-----------------------------------------------------------------------------
(* Claims about the scorer and the assembler *)

\* The whitespace-separated words of s: its maximal runs of non-whitespace.
WordsOf(s) ==
    {SubSeq(s, i, j) : <<i, j>> \in
        {p \in (1..Len(s)) \X (1..Len(s)) :
            /\ p[1] <= p[2]
            /\ \A k \in p[1]..p[2] : ~IsSpace(Ch(s, k))
            /\ (p[1] = 1 \/ IsSpace(Ch(s, p[1] - 1)))
            /\ (p[2] = Len(s) \/ IsSpace(Ch(s, p[2] + 1)))}}

\* t is a contiguous substring of s.
Occurs(s, t) == \E i \in 1..(Len(s) + 1) : StartsAt(s, t, i)

CommonWords(q, chunk) == WordsOf(lower(q)) \cap WordsOf(lower(chunk.text))

\* The score as the specification words it.
ClaimedScore(q, chunk) ==
    Cardinality(CommonWords(q, chunk))
    + (IF Occurs(lower(chunk.text), lower(q)) THEN 10 ELSE 0)

\* The claimed scores of the pool's chunks, by place in the pool.
PoolScores == [i \in 1..Len(all_chunks) |-> ClaimedScore(query, all_chunks[i])]

PositiveIn(sc) == {i \in DOMAIN sc : sc[i] > 0}

Positive == PositiveIn(PoolScores)

\* The r-th smallest element of a set of numbers.
Nth(S, r) == CHOOSE i \in S : Cardinality({j \in S : j < i}) = r - 1

Smaller(a, b) == IF a < b THEN a ELSE b

\* relevant is the first top_k chunks of the pool, in pool order.
FirstTopKOfPool ==
    /\ Len(relevant) = Smaller(top_k, Len(all_chunks))
    /\ \A i \in 1..Len(relevant) : relevant[i] = all_chunks[i]

\* C6 as stated (for a pool that is not empty): when no chunk of the pool
\* scores above 0, the assembler returns the first top_k chunks of the pool in
\* original order, and the returned sequence is never empty.
C6_FallbackNeverEmpty ==
    (rpc = "done" /\ all_chunks # <<>> /\ Positive = {})
    => (FirstTopKOfPool /\ relevant # <<>>)

\* C6 amended: the same when top_k is at least 1.
C6_FallbackFirstTopK ==
    (rpc = "done" /\ all_chunks # <<>> /\ Positive = {} /\ top_k >= 1)
    => (FirstTopKOfPool /\ relevant # <<>>)

\* C6 witness: a pool of more than top_k chunks, none scoring, was cut to its
\* first top_k chunks.
C6_Witness ==
    /\ rpc = "done"
    /\ Positive = {}
    /\ top_k = 2
    /\ Len(all_chunks) = 4
    /\ Len(relevant) = 2

\* No document contributes a chunk: its text is empty or chunks to nothing.
EmptyPool ==
    \A i \in 1..Len(pdfs) :
        \/ pdfs[i].pdf_text = ""
        \/ extract_chunks_from_text(pdfs[i].pdf_text, pdfs[i].filename) = <<>>

\* C7: when the chunk pool derived from the documents is empty, the assembler
\* returns exactly one placeholder chunk with source "System" and page "0",
\* for every query and every top_k.
C7_EmptyPoolPlaceholder ==
    (rpc = "done" /\ EmptyPool)
    => /\ Len(relevant) = 1
       /\ relevant[1].source = "System"
       /\ relevant[1].page = "0"

\* C7 witness: two documents, one blank and one a marker without content,
\* were answered with the placeholder for top_k = 0.
C7_Witness ==
    /\ rpc = "done"
    /\ Len(pdfs) = 2
    /\ pdfs[1].pdf_text = " \n"
    /\ pdfs[2].pdf_text = "--- Page 1 ---\n"
    /\ top_k = 0
    /\ query = "the cat"
    /\ Len(relevant) = 1

\* C8: the score of every chunk equals the number of distinct lower-cased
\* whitespace-separated words common to query and chunk, plus 10 exactly when
\* the lower-cased query is a substring of the lower-cased chunk text (the
\* scored list holds exactly the chunks scoring above 0, in pool order); so a
\* chunk holding all query words scores at least their number, and at least
\* that plus 10 when the query occurs in it verbatim.
C8_ScoreIsOverlapPlusBonus ==
    (rpc = "done" /\ all_chunks # <<>>)
    => LET sc == PoolScores
           pos == PositiveIn(sc)
           qw == WordsOf(lower(query))
       IN  /\ Len(scored_chunks) = Cardinality(pos)
           /\ \A r \in 1..Len(scored_chunks) :
                 LET i == Nth(pos, r)
                     c == all_chunks[i]
                 IN  /\ scored_chunks[r].chunk = c
                     /\ scored_chunks[r].score = sc[i]
                     /\ qw \subseteq WordsOf(lower(c.text))
                        => /\ scored_chunks[r].score >= Cardinality(qw)
                           /\ Occurs(lower(c.text), lower(query))
                              => scored_chunks[r].score >= Cardinality(qw) + 10

\* C8 witness: one chunk scored 12 (two words and the phrase), one scored 1
\* (one word, in a text of other case, no phrase) and one did not score.
C8_Witness ==
    /\ rpc = "done"
    /\ query = "cat sat"
    /\ \E r \in 1..Len(scored_chunks) : scored_chunks[r].score = 12
    /\ \E r \in 1..Len(scored_chunks) :
          scored_chunks[r].score = 1 /\ scored_chunks[r].chunk.text = "A cat"
    /\ Len(scored_chunks) < Len(all_chunks)

\* i comes before j in the ranking by the scores sc: a higher score, or the
\* same score and an earlier place in the pool.
RankedBefore(sc, i, j) ==
    \/ sc[i] > sc[j]
    \/ sc[i] = sc[j] /\ i < j

Rank(sc, i) == Cardinality({j \in PositiveIn(sc) : RankedBefore(sc, j, i)})

\* C9: when at least one chunk scores above 0, the result is exactly the
\* first top_k of the positively-scored chunks sorted by descending score,
\* equal scores keeping their pool order, and no chunk scoring 0 appears.
C9_RankedTopK ==
    LET sc == PoolScores
        pos == PositiveIn(sc)
    IN  (rpc = "done" /\ pos # {})
        => /\ Len(relevant) = Smaller(top_k, Cardinality(pos))
           /\ \A r \in 1..Len(relevant) :
                 relevant[r] = all_chunks[CHOOSE i \in pos : Rank(sc, i) = r - 1]

\* C9 witness: four chunks, the third scoring highest and the others tied,
\* were returned as the third followed by the first and the second.
C9_Witness ==
    /\ rpc = "done"
    /\ top_k = 3
    /\ Len(all_chunks) = 4
    /\ Cardinality(Positive) = 4
    /\ PoolScores[3] > PoolScores[1]
    /\ PoolScores[1] = PoolScores[2]
    /\ PoolScores[2] = PoolScores[4]
    /\ relevant = <<all_chunks[3], all_chunks[1], all_chunks[2]>>

-----------------------------------------------------------------------------
(* Claims about the prompt context and the reference extractor *)

\* C3: for any chunk list, the context text inserted into the prompt is
\* built from at most 6 chunk blocks and is at most 12,000 characters long.
C3_ContextWithinBudget ==
    ppc = "done" => (Len(context_parts) <= 6 /\ context_text <= 12000)

\* C10: the text "References\n\nSmith, J. (2020). A Study. Journal.\n\nAppendix"
\* yields exactly one extracted bibliography entry.
C10_ExampleYieldsOneEntry ==
    (/\ xpc = "done"
     /\ ref_input = "References\n\nSmith, J. (2020). A Study. Journal.\n\nAppendix")
    => Len(references) = 1

-----------------------------------------------------------------------------
(* Claims about the chat handler *)

\* The last request was a chat that met at least one failing call.
ChatWithFailure == response.route = "chat" /\ response.faults # NoFaults

\* The chat saved its pair: the last two rows of the history are a user
\* message and the assistant message holding the answer and the citations.
SavedPair ==
    /\ response.status = 303
    /\ Len(chat_history) >= 2
    /\ chat_history[Len(chat_history) - 1].role = "user"
    /\ chat_history[Len(chat_history)].role = "assistant"
    /\ chat_history[Len(chat_history)].content = response.response_text
    /\ chat_history[Len(chat_history)].citations = response.citations

\* C1: when llm.invoke raises inside answer_with_context, the chat saves a
\* literal fallback answer as the assistant message together with an empty
\* citations block, and no fault leaves the handler.
C1_InvokeFailureEmptyCitations ==
    (response.route = "chat" /\ response.faults.invoke_answer)
    => /\ SavedPair
       /\ response.response_text \in {ApologyText, ChatFallback}
       /\ response.citations = ""

\* C2 as stated: whatever call of the chat pipeline fails, no fault leaves the
\* handler, a pair of strings is saved and the answer is a fixed substitute.
C2_EveryFailureFixedAnswer ==
    ChatWithFailure
    => /\ SavedPair
       /\ response.response_text \in {ApologyText, ChatFallback}

\* C2 as amended: whatever call of the chat pipeline fails, no fault leaves
\* the handler and a pair of strings is saved.  The answer is the fixed
\* fallback text with empty citations when retrieval or the construction of
\* a model client fails, and the fixed apology when the answer's model call
\* fails; when only the related-papers model call fails, the answer is the
\* model's own and the citations block holds the explanatory string.
C2_FailuresAbsorbed ==
    ChatWithFailure
    => /\ SavedPair
       /\ (response.faults.retrieval \/ response.faults.client_answer
           \/ response.faults.client_related)
          => (response.response_text = ChatFallback /\ response.citations = "")
       /\ (response.faults.invoke_answer /\ ~response.faults.client_related)
          => response.response_text = ApologyText
       /\ (response.faults.invoke_related /\ ~response.faults.invoke_answer)
          => /\ response.response_text = LLMAnswer
             /\ contains(response.citations,
                         "Could not generate related papers: " \o LLMError)

\* A chat whose related-papers model call alone failed has saved the model's
\* answer.
C2_Witness ==
    /\ response.route = "chat"
    /\ response.faults = [NoFaults EXCEPT !.invoke_related = TRUE]
    /\ SavedPair
    /\ response.response_text = LLMAnswer

-----------------------------------------------------------------------------
(* Uploads, summaries, citations, ownership and history *)

\* A file can be extracted when some page of it has text that is not blank.
Extractable(file) ==
    \E i \in DOMAIN file.pages :
        \E j \in 1..Len(file.pages[i]) : ~IsSpace(Ch(file.pages[i], j))

ExtractableFiles == SelectSeq(up_files, Extractable)

UploadAccepted == upc = "done" /\ up_status = 303

\* C11: in an upload accepted by the count limit, the rows stored are exactly
\* one per file whose extraction succeeds, in the order of the batch, whatever
\* the position and number of the files whose extraction fails.
C11_EachExtractableFileStored ==
    UploadAccepted =>
        /\ Cardinality(up_stored) = Len(ExtractableFiles)
        /\ \A i \in 1..Len(ExtractableFiles) :
              \E row \in up_stored :
                  /\ row.id = up_current + i
                  /\ row.filename = splitext_root(ExtractableFiles[i].filename)
                  /\ row.pdf_text = ingest_pdf_to_text(ExtractableFiles[i]).pdf_text

\* An accepted batch whose first and last files fail around one that succeeds.
C11_Witness ==
    /\ UploadAccepted
    /\ Len(up_files) = 3
    /\ ~Extractable(up_files[1])
    /\ Extractable(up_files[2])
    /\ ~Extractable(up_files[3])
    /\ Cardinality(up_stored) = 1

RelatedFails == cit_env.client_related \/ cit_env.invoke_related

\* C12: whenever the model client cannot be built or its call fails during the
\* related-paper generation, search_papers_from_pdf still returns a citations
\* block, which holds the related-papers section with an explanatory string.
C12_RelatedFailureStillReturnsBlock ==
    (spc = "done" /\ RelatedFails) =>
        /\ ~cit_result.raised
        /\ contains(cit_result.value, RelatedHeader)
        /\ contains(cit_result.value, "Could not generate related papers: ")

PromptBuilt == mpc = "done" /\ sum_llm # "client"

\* C13: the document text summarize_document passes to the model is the full
\* text when it has at most 20,000 characters, and otherwise exactly its first
\* 10,000 characters, the elision marker and its last 10,000 characters, in
\* that order.
C13_FullTextOrTwoEnds ==
    PromptBuilt =>
        IF sum_len <= 20000
        THEN sum_input = SummaryTexts[sum_len]
        ELSE /\ Len(sum_input) = 20000 + Len(ElisionMarker)
             /\ sum_input = HeadRun \o ElisionMarker \o TailRun

\* A text one character over the threshold: its middle character is left out.
C13_Witness ==
    /\ PromptBuilt
    /\ sum_len = 20001
    /\ contains(SummaryTexts[sum_len], "b")
    /\ ~contains(sum_input, "b")

BlockReturned == spc = "done" /\ ~cit_result.raised

HasBibliography == contains(cit_result.value, ReferencesHeader)

HasRelatedPapers == contains(cit_result.value, RelatedHeader)

\* C14: a citations block returned by search_papers_from_pdf always holds the
\* related-papers section, holds the bibliography section exactly when at least
\* one bibliography entry was extracted, and has the bibliography section
\* before the related-papers section when it holds both.
C14_BlockSections ==
    BlockReturned =>
        /\ HasRelatedPapers
        /\ HasBibliography <=> cit_refs # <<>>
        /\ HasBibliography =>
              find(cit_result.value, ReferencesHeader)
                  < find(cit_result.value, RelatedHeader)

\* A block returned for documents that hold a reference list, after the model
\* call failed: no entry was extracted and the block is the related-papers
\* section alone.
C14_Witness ==
    /\ BlockReturned
    /\ cit_env.invoke_related
    /\ Len(cit_docs) >= 2
    /\ cit_docs[1].pdf_text \in CitationTexts
    /\ cit_refs = <<>>
    /\ HasRelatedPapers
    /\ ~HasBibliography

\* The section a pattern captures, with the case of the document kept: the
\* header is looked for without regard to case.
SectionOf(text, pattern) ==
    LET s == lower(text)
        at == {i \in 1..Len(s) : header_at(s, pattern.headers, i) > 0}
        g == header_at(s, pattern.headers, SetMin(at))
        ends == {e \in g..Len(s) : StartsAt(s, pattern.stop, e)}
    IN  IF at = {}
        THEN [found |-> FALSE, text |-> ""]
        ELSE [found |-> TRUE,
              text |-> SubSeq(text, g, (IF ends = {} THEN Len(s) + 1 ELSE SetMin(ends)) - 1)]

\* The entries a document contributes: at most 10, from the section of the
\* first pattern that matches.
RECURSIVE ClaimedEntries(_, _)
ClaimedEntries(text, k) ==
    IF k > Len(ref_patterns)
    THEN <<>>
    ELSE IF SectionOf(text, ref_patterns[k]).found
         THEN take(findall_entries(SectionOf(text, ref_patterns[k]).text, 1), 10)
         ELSE ClaimedEntries(text, k + 1)

claimed_entries == [text \in DOMAIN doc_references |-> ClaimedEntries(text, 1)]

RECURSIVE ClaimedBibliography(_)
ClaimedBibliography(docs) ==
    IF docs = <<>>
    THEN <<>>
    ELSE claimed_entries[Head(docs).pdf_text] \o ClaimedBibliography(Tail(docs))

OwnerRequest(r) ==
    r.route \in {"chat", "delete_pdf", "clear_chat"} /\ r.user_id # 0

\* C16: a chat, delete-pdf (with any document id) or clear-chat issued by a
\* user never uses, deletes or alters a document or chat message of another
\* user: the documents and messages of all other users are the same after the
\* request as before it, and the documents a chat uses are the requester's.
C16_OwnershipIsolation ==
    [][OwnerRequest(response') =>
          /\ {p \in uploaded_pdfs' : p.user_id # response'.user_id}
                = {p \in uploaded_pdfs : p.user_id # response'.user_id}
          /\ SelectSeq(chat_history', LAMBDA m : m.user_id # response'.user_id)
                = SelectSeq(chat_history, LAMBDA m : m.user_id # response'.user_id)
          /\ response'.pdfs \subseteq
                {p.id : p \in {q \in uploaded_pdfs : q.user_id = response'.user_id}}
          /\ uploaded_pdfs' \subseteq uploaded_pdfs]_vars

\* A user has asked to delete the document of another user, which is still
\* stored.
C16_Witness ==
    /\ response.route = "delete_pdf"
    /\ response.status = 303
    /\ response.user_id # 0
    /\ \E p \in uploaded_pdfs :
          p.id = response.pdf_id /\ p.user_id # response.user_id

\* The chat history of a user, oldest message first.
HistoryOf(history, u) == SelectSeq(history, LAMBDA m : m.user_id = u)

HistoryOwners(history) == {history[i].user_id : i \in DOMAIN history}

\* C17: in every step the chat history of every user either stays as it is,
\* or grows at its end by one user message followed by one assistant message
\* in a chat request of that user, or becomes empty in a clear-chat of that
\* user; and every chat request that is served grows it so.
C17_AppendOrClear ==
    [][/\ \A u \in HistoryOwners(chat_history) \cup HistoryOwners(chat_history') :
            LET before == HistoryOf(chat_history, u)
                after == HistoryOf(chat_history', u)
            IN  \/ after = before
                \/ /\ response'.route = "chat"
                   /\ response'.user_id = u
                   /\ Len(after) = Len(before) + 2
                   /\ SubSeq(after, 1, Len(before)) = before
                   /\ after[Len(before) + 1].role = "user"
                   /\ after[Len(before) + 2].role = "assistant"
                \/ /\ response'.route = "clear_chat"
                   /\ response'.user_id = u
                   /\ after = <<>>
       /\ (response'.route = "chat" /\ response'.status = 303) =>
            Len(HistoryOf(chat_history', response'.user_id))
                = Len(HistoryOf(chat_history, response'.user_id)) + 2]_vars

\* A chat has just been added behind an earlier chat of the same user.
C17_Witness ==
    /\ response.route = "chat"
    /\ response.status = 303
    /\ Len(HistoryOf(chat_history, response.user_id)) = 4
    /\ chat_history[Len(chat_history)].content = response.response_text

\* The segments the page marker's opening token splits the text into.
Segments == split(pdf_text, PageOpen)

\* The place among the chunks of the chunk that the i-th segment produced.
RECURSIVE ChunksUpTo(_)
ChunksUpTo(i) ==
    IF i = 0 THEN 0
    ELSE ChunksUpTo(i - 1) + Len(chunk_of_page(Segments[i], filename))

Unparsed(segment) == find(segment, PageClose) < 0 /\ strip(segment) # ""

\* C18: a segment without the marker's closing token is labelled "1" when it
\* is the first segment of the document and "?" when it is a later one.
C18_UnparsedSegmentLabel ==
    cpc = "done" =>
        \A i \in 1..Len(Segments) :
            Unparsed(Segments[i]) =>
                chunks[ChunksUpTo(i)].page = IF i = 1 THEN "1" ELSE "?"

RECURSIVE TotalLen(_)
TotalLen(parts) == IF parts = <<>> THEN 0 ELSE Len(Head(parts)) + TotalLen(Tail(parts))

\* The text of a chunk as the prompt shows it.
ShownText(chunk) ==
    truncated(IF chunk.dict THEN dict_get(chunk, "text", str_of_chunk(chunk))
              ELSE chunk.value)

\* The i-th block is labelled [Source i and ends with the text of the i-th
\* chunk.
BlockOfChunk(i) ==
    /\ StartsAt(blk_parts[i], "[Source " \o str(i) \o ": ", 1)
    /\ StartsAt(blk_parts[i], "]\n" \o ShownText(blk_chunks[i]) \o "\n",
                Len(blk_parts[i]) - Len(ShownText(blk_chunks[i])) - 2)

\* C19: the blocks of the prompt are those of a prefix of the selected chunks,
\* labelled [Source 1], [Source 2], ... in that order; the prefix ends at the
\* first chunk whose block would take the running total over the budget, and
\* no chunk behind that one is included.
C19_BlocksArePrefix ==
    bpc = "done" =>
        /\ Len(blk_parts) <= Len(blk_chunks)
        /\ \A i \in 1..Len(blk_parts) : BlockOfChunk(i)
        /\ TotalLen(blk_parts) <= max_context_chars
        /\ Len(blk_parts) < Len(take(blk_chunks, MaxPromptChunks)) =>
              TotalLen(blk_parts)
                  + Len(chunk_block(Len(blk_parts) + 1, blk_chunks[Len(blk_parts) + 1]))
                  > max_context_chars

\* Two blocks were included, the third chunk did not fit, and the fourth,
\* which would have fitted, was left out.
C19_Witness ==
    /\ bpc = "done"
    /\ Len(blk_chunks) = 4
    /\ Len(blk_parts) = 2
    /\ TotalLen(blk_parts) + Len(chunk_block(4, blk_chunks[4])) <= max_context_chars

Lacks(chunk, key) ==
    chunk.dict /\ \A i \in DOMAIN chunk.items : chunk.items[i][1] # key

\* What the i-th block shows between "[Source i: " and the closing bracket:
\* the source, then ", Page ", then the page label.
ShownHeader(i) ==
    SubSeq(blk_parts[i], Len("[Source " \o str(i) \o ": ") + 1,
           find(blk_parts[i], "]\n"))

ShownSource(i) == take(ShownHeader(i), find(ShownHeader(i), ", Page "))

ShownPage(i) ==
    DropFirst(ShownHeader(i), find(ShownHeader(i), ", Page ") + Len(", Page "))

\* C20 as stated: for a chunk record that lacks a page label the block shows
\* the page "?", and for one that lacks a source it shows the source
\* "Document".
C20_DefaultsAsStated ==
    bpc = "done" =>
        \A i \in 1..Len(blk_parts) :
            /\ Lacks(blk_chunks[i], "page") => ShownPage(i) = "?"
            /\ Lacks(blk_chunks[i], "source") => ShownSource(i) = "Document"

\* C20 amended: for a chunk record that lacks a page label the block shows the
\* page "N/A", and for one that lacks a source it shows the source "Unknown".
C20_DefaultsOfTheCode ==
    bpc = "done" =>
        \A i \in 1..Len(blk_parts) :
            /\ Lacks(blk_chunks[i], "page") => ShownPage(i) = "N/A"
            /\ Lacks(blk_chunks[i], "source") => ShownSource(i) = "Unknown"

\* A prompt with a block for a chunk without page and one for a chunk without
\* source.
C20_Witness ==
    /\ bpc = "done"
    /\ Len(blk_parts) >= 2
    /\ Lacks(blk_chunks[1], "page")
    /\ Lacks(blk_chunks[2], "source")
    /\ blk_parts[1] = "[Source 1: a.pdf, Page N/A]\ncats sit\n"
    /\ blk_parts[2] = "[Source 2: Unknown, Page 2]\ncats sit\n"

\* C21: through any sequence of upload, delete-pdf and clear-chat requests of
\* a user, the user never has more than 5 documents, and an upload whose
\* files together with the documents stored are more than 5 is rejected and
\* stores nothing, while any other upload is accepted.
C21_AtMostFiveDocuments ==
    [][/\ Cardinality(lib_rows') <= 5
       /\ lib_last'.route = "upload" =>
            IF Cardinality(lib_rows) + lib_last'.batch > 5
            THEN lib_last'.status = 400 /\ lib_rows' = lib_rows /\ lib_seq' = lib_seq
            ELSE lib_last'.status = 303 /\ lib_rows \subseteq lib_rows']_vars

\* The user has 5 documents and an upload of one more file has just been
\* rejected.
C21_Witness ==
    /\ Cardinality(lib_rows) = 5
    /\ lib_last = LibraryLast("upload", 400, 1)

ProtectedRoutes == {"chat_page", "chat", "upload", "delete_pdf", "clear_chat"}

\* The response a protected operation gives to a request without a session.
Unauthenticated(route) == IF route = "chat_page" THEN 307 ELSE 401

\* C22: a protected operation that is sent the session of a user who has not
\* registered yet answers as it answers a request without a session.
C22_PendingIsUnauthenticated ==
    (response.route \in ProtectedRoutes /\ response.session = "pending")
    => response.status = Unauthenticated(response.route)

\* The session tokens given out so far.
Issued == 1..issued

\* C23: a session token that is no longer in the session table (tokens leave
\* it by logout only) is never in it again, and a logout removes at most one
\* token and leaves every other session as it was.
C23_LogoutIsFinalAndLocal ==
    [][/\ \A s \in Issued : s \notin DOMAIN sessions => s \notin DOMAIN sessions'
       /\ DOMAIN sessions' \subseteq Issued \cup {issued'}
       /\ response'.route = "logout" =>
            /\ Cardinality(DOMAIN sessions \ DOMAIN sessions') <= 1
            /\ DOMAIN sessions' \subseteq DOMAIN sessions
            /\ \A s \in DOMAIN sessions' : sessions'[s] = sessions[s]]_vars

\* A registered user has logged out of one session and still has another.
C23_Witness ==
    /\ response.route = "logout"
    /\ response.user_id # 0
    /\ Cardinality(DOMAIN sessions) < issued
    /\ \E s \in DOMAIN sessions : sessions[s].id = response.user_id

\* The sessions that a step of register turns from pending into the user it
\* has just created, every other session staying as it was.
Registered ==
    {s \in DOMAIN sessions :
        /\ sessions[s].pending_registration
        /\ users' = Append(users, sessions'[s])
        /\ sessions'[s].id = Len(users')
        /\ sessions'[s].google_id = sessions[s].google_id
        /\ ~sessions'[s].pending_registration
        /\ \A t \in DOMAIN sessions \ {s} : sessions'[t] = sessions[t]}

\* C24: a register request succeeds only on a pending session, which then
\* maps to the user it created; on a session of a user or on an unknown token
\* it is rejected; every rejected request, also one whose user could not be
\* created, leaves users and sessions as they were; and a session that maps
\* to a user is never mapped to anything else.
C24_RegistrationOncePerPendingSession ==
    [][/\ response'.route = "register" =>
            /\ response'.session = "none" => response'.status = 401
            /\ response'.session = "user" => response'.status = 400
            /\ response'.status \in {303, 400, 401}
            /\ IF response'.status = 303
               THEN /\ response'.session = "pending"
                    /\ DOMAIN sessions' = DOMAIN sessions
                    /\ Registered # {}
               ELSE users' = users /\ sessions' = sessions
       /\ response'.route # "register" => users' = users
       /\ \A s \in DOMAIN sessions \cap DOMAIN sessions' :
            ~sessions[s].pending_registration => sessions'[s] = sessions[s]]_vars

\* A pending session has been refused a user name that is taken and is still
\* pending, after another session has registered with that name.
C24_Witness ==
    /\ response.route = "register"
    /\ response.session = "pending"
    /\ response.status = 400
    /\ Len(users) >= 1
    /\ \E s \in DOMAIN sessions : sessions[s].pending_registration
    /\ \E s \in DOMAIN sessions : ~sessions[s].pending_registration

\* C25: the outcome of search_papers_from_pdf is the one it has for every
\* other answer text, with or without source markers, the documents and the
\* behaviour of the model being the same.
C25_BlockIndependentOfAnswer ==
    spc = "done" =>
        \A other \in AnswerTexts :
            cit_result = search_papers_from_pdf(cit_docs, other, cit_env)

\* A block has been returned for documents and an answer with the markers of
\* sources 2 and 3.
C25_Witness ==
    /\ spc = "done"
    /\ cit_answer = MarkedAnswer
    /\ cit_docs # <<>>
    /\ ~cit_result.raised
    /\ cit_env = NoFaults

\* The pages of the file that have text, by their 1-based index, in order.
RECURSIVE PagesWithText(_)
PagesWithText(n) ==
    IF n = 0 THEN <<>>
    ELSE PagesWithText(n - 1)
         \o (IF strip(rt_pages[n]) # "" THEN <<n>> ELSE <<>>)

MarkerFree == \A i \in 1..Len(rt_pages) : ~contains(rt_pages[i], PageOpen)

\* C26: for a file none of whose page texts contains the page-marker token,
\* the chunks of the ingested text are, in order, one per page that has text
\* (a page of white space has none), labelled with that page's own index and
\* holding that page's trimmed text.
C26_IngestChunkRoundTrip ==
    (tpc = "chunked" /\ MarkerFree) =>
        LET p == PagesWithText(Len(rt_pages))
        IN  /\ Len(rt_chunks) = Len(p)
            /\ \A j \in 1..Len(p) :
                 /\ rt_chunks[j].page = str(p[j])
                 /\ rt_chunks[j].text = strip(rt_pages[p[j]])

\* A file whose first page is blank and whose second and third have text,
\* one with white space around it, has been ingested and chunked.
C26_Witness ==
    /\ tpc = "chunked"
    /\ MarkerFree
    /\ Len(rt_pages) = 3
    /\ strip(rt_pages[1]) = ""
    /\ rt_pages[2] = " the dog \n"
    /\ rt_pages[3] = "a --- b"
    /\ Len(rt_chunks) = 2

=============================================================================
